---- MODULE Spec2Model ----
(***************************************************************************)
(* clipQueue: the clipboard-queue Controller (internal/app), the external  *)
(* clipboard it reads and writes, the clipboard-event coalescing worker of *)
(* main, and the SignatureMatcher of platform/windows.                     *)
(***************************************************************************)
EXTENDS Integers, Sequences, FiniteSets, TLC

(* ---------------- bounds of the model ---------------- *)
\* goroutines that run controller operations concurrently (hotkeys, tray, HTTP)
NumThreads == 2
\* operations (controller calls and user copies) one behaviour may start
MaxOps == 3
\* the clock advances in steps of TickMs milliseconds up to MaxNow
TickMs == 500
MaxNow == 1000
\* the signature hash keeps the low HashBits bits of the 64-bit FNV-1a hash
HashBits == 3
\* Register calls one behaviour may make
MaxRegistrations == 2
\* bytes of an input of SignatureFromBytes that did not come from ToBytes
MaxWireLen == 6
\* characters of a configuration string that did not come from ToBase64
MaxTextLen == 4
\* input events one behaviour may deliver to the hooks
MaxEvents == 2
\* StartCapture calls one behaviour may make
MaxSessions == 2
\* '+'-separated parts of a legacy hotkey string
MaxParts == 3
\* ReloadConfig calls one behaviour may make
MaxReloads == 2

(* ---------------- program constants ---------------- *)
ringBufferSize == 8
HistoryCap == 50
Second == 1000
\* hash/fnv: the low 16 bits of the 64-bit offset basis and of the prime
FNVOffset == 8997
FNVPrime == 435

VARIABLES
    queueEnabled,      \* Controller.queueEnabled
    queue,             \* Controller.queue
    history,           \* Controller.history
    snapshotOnEnable,  \* Controller.snapshotOnEnable (NoSnapshot = nil)
    selfEventsRing,    \* Controller.selfEventsRing, indexed 0..ringSize-1
    ringIndex,         \* Controller.ringIndex
    orderStrategy,     \* Controller.orderStrategy
    mu,                \* Controller.mu: the thread holding it, or NoOwner
    lastNotify,        \* arguments of the last onStateChange call, and whether mu was held
    notifyFlip,        \* flips at every onStateChange call
    clipboard,         \* content of the OS clipboard
    clipSeq,           \* GetClipboardSequenceNumber()
    clipOwner,         \* who made the last clipboard change: "user" or "program"
    wmQueue,           \* WM_CLIPBOARDUPDATE messages posted and not yet dispatched
    clipEvents,        \* main's one-slot channel clipEvents (number of queued events)
    now,               \* wall clock, milliseconds
    opsLeft,           \* operations the behaviour may still start
    lastOp,            \* the operation started last
    pc,                \* position of every operation goroutine
    loc,               \* locals of every operation goroutine
    wpc,               \* position of the coalescing worker goroutine
    recorded,          \* every sequence number passed to addSelfEvent, in order
    ocuOutcome,        \* what the last OnClipboardUpdate call did
    signatures,        \* SignatureMatcher.signatures: hash -> registrations
    nextCallback,      \* callbacks handed to Register so far
    matchResult,       \* the last Match: its argument and what it returned
    regsLeft,          \* Register calls the behaviour may still make
    lastCall,          \* the last call made on the SignatureMatcher
    codecSig,          \* the signature handed to ToBytes or ToBase64 last
    codecData,         \* the bytes at hand: ToBytes' result, or bytes from elsewhere
    codecText,         \* the string at hand: ToBase64's result, or a string of the configuration
    codecResult,       \* what the last SignatureFromBytes or SignatureFromBase64 returned
    captureMode,       \* InputListener.captureMode
    captureChan,       \* InputListener.captureChan: at most one signature, with the event it came from
    hpc,               \* position of the hook callback on the hook thread
    hev,               \* the event the hook callback is handling
    cpc,               \* position of every goroutine in CaptureHotkeyWithDisplay
    session,           \* per goroutine: the events that had arrived when it called StartCapture,
                       \* when it stored true and when its WaitForCapture returned
    cret,              \* per goroutine: what its last WaitForCapture returned
    eventsArrived,     \* input events other than bare modifier keys the hooks were called for so far
    modifierKeys,      \* bare modifier key events so far
    lastHandled,       \* what the hook did with the last event it has finished
    sessionsStarted,   \* StartCapture calls so far
    lastOff,           \* who stored false into captureMode last
    lastReturn,        \* the WaitForCapture call that returned last
    parsed,            \* the last Host.ParseHotkeyToSignature call: its argument and result
    cfg,               \* Host.cfg: the hotkey strings and macros of the configuration
    reloadPosted,      \* WM_RELOAD_CONFIG messages posted and not yet dispatched
    mmu,               \* SignatureMatcher.mu: its writer and its readers
    spawned,           \* the callbacks the hooks have started with "go callback()", in order
    reloading,         \* the WM_RELOAD_CONFIG handler: its copy of the configuration and
                       \* the registrations it has still to make
    reloadsLeft        \* ReloadConfig calls the behaviour may still make

ctlVars == <<queueEnabled, queue, history, snapshotOnEnable, selfEventsRing,
             ringIndex, orderStrategy, mu, lastNotify, notifyFlip>>
osVars == <<clipboard, clipSeq, clipOwner, wmQueue, clipEvents, now>>
budget == <<opsLeft, lastOp>>
envVars == <<osVars, budget>>
thrVars == <<pc, loc, wpc, recorded, ocuOutcome>>
matcherVars == <<signatures, nextCallback, matchResult, regsLeft, lastCall>>
codecVars == <<codecSig, codecData, codecText, codecResult>>
listenerVars == <<captureMode, captureChan, hpc, hev, cpc, session, cret,
                  eventsArrived, modifierKeys, lastHandled, sessionsStarted,
                  lastOff, lastReturn>>
hostVars == <<parsed, cfg, reloadPosted, mmu, spawned, reloading, reloadsLeft>>
inputVars == <<matcherVars, codecVars, listenerVars, hostVars>>
controllerVars == <<ctlVars, envVars, thrVars>>
vars == <<ctlVars, envVars, thrVars, inputVars>>

(* ---------------- values ---------------- *)
OpThreads == 1..NumThreads
Worker == 0
NoOwner == -1

\* what a program can put on the clipboard: windows.ClipboardContent without
\* the fields Read adds
Payload(type, val, size) == [Type |-> type, Val |-> val, SizeBytes |-> size]
EmptyClip == Payload("Empty", "", 0)
UserPayloads == { Payload("Text", "a", 1), Payload("Text", "b", 1),
                  Payload("Image", "p", 2), Payload("Image", "q", 2) }

\* a windows.ClipboardContent as Read returns it
Content(p, ts) == [Type |-> p.Type, Val |-> p.Val, SizeBytes |-> p.SizeBytes, Timestamp |-> ts]
\* the zero value of windows.ClipboardContent (what Read returns with an error)
ZeroContent == Content(EmptyClip, 0)
\* what Write puts on the clipboard for a content
ClipOf(c) == Payload(c.Type, c.Val, c.SizeBytes)

NoSnapshot == [Type |-> "nil"]
NoNotify == [enabled |-> FALSE, count |-> 0, mode |-> "none", locked |-> FALSE]
\* the locals of an operation; after is the controller's (enabled, count,
\* mode) right after the change the operation made in its critical section
NoLocals == [item |-> ZeroContent, before |-> ZeroContent, seq |-> 0, after |-> NoNotify]
NoOutcome == "none"

(* ---------------- helpers of the controller ---------------- *)
\* windows.Read on a clipboard that can be opened
ReadClipboard == Content(clipboard, now)

\* isSelfEvent with a scan that starts at slot 1
isSelfEventFromSlotOne(seq) ==
    \E i \in DOMAIN selfEventsRing \ {0} : selfEventsRing[i] = seq

\* Controller.isSelfEvent
isSelfEvent(seq) == \E i \in DOMAIN selfEventsRing : selfEventsRing[i] = seq

\* Controller.addSelfEventLocked: the slot written and the cursor after it
RingStore(ring, idx, seq) == [ring EXCEPT ![idx] = seq]
\* the cursor is not advanced
RingAdvanceStuck(idx) == idx
RingAdvance(idx) == (idx + 1) % ringBufferSize

addSelfEventLocked(seq) ==
    /\ selfEventsRing' = RingStore(selfEventsRing, ringIndex, seq)
    /\ ringIndex' = RingAdvance(ringIndex)
    /\ recorded' = Append(recorded, seq)

\* the deduplication test with the window closed at one second
IsDuplicateInclusive(content, hist) ==
    /\ Len(hist) > 0
    /\ LET last == hist[Len(hist)] IN
        /\ content.Type = last.Type
        /\ content.Timestamp - last.Timestamp <= Second
        /\ IF content.Type = "Text" THEN content.Val = last.Val
                                    ELSE content.SizeBytes = last.SizeBytes

\* the deduplication test of OnClipboardUpdate
IsDuplicate(content, hist) ==
    /\ Len(hist) > 0
    /\ LET last == hist[Len(hist)] IN
        /\ content.Type = last.Type
        /\ content.Timestamp - last.Timestamp < Second
        /\ IF content.Type = "Text" THEN content.Val = last.Val
                                    ELSE content.SizeBytes = last.SizeBytes

\* the history rotation with > for >=
AppendHistoryLate(hist, content) ==
    Append(IF Len(hist) > HistoryCap THEN Tail(hist) ELSE hist, content)

\* the new content put in front of the history, the last entry dropped at capacity
AppendHistoryAtHead(hist, content) ==
    <<content>> \o (IF Len(hist) >= HistoryCap THEN SubSeq(hist, 1, Len(hist) - 1) ELSE hist)

\* the history rotation of OnClipboardUpdate
AppendHistory(hist, content) ==
    Append(IF Len(hist) >= HistoryCap THEN Tail(hist) ELSE hist, content)

\* the dequeue with the two strategies exchanged
PasteNextDequeueSwapped(q, order) ==
    IF order = "LIFO"
      THEN [item |-> q[1], rest |-> Tail(q)]
      ELSE [item |-> q[Len(q)], rest |-> SubSeq(q, 1, Len(q) - 1)]

\* the dequeue of PasteNext: the item taken and the queue left
PasteNextDequeue(q, order) ==
    IF order = "LIFO"
      THEN [item |-> q[Len(q)], rest |-> SubSeq(q, 1, Len(q) - 1)]
      ELSE [item |-> q[1], rest |-> Tail(q)]

\* the slicing with a 1-based index
RemoveAtOneBased(q, index) == SubSeq(q, 1, index - 1) \o SubSeq(q, index + 1, Len(q))

\* the slicing of RemoveItem
RemoveAt(q, index) == SubSeq(q, 1, index) \o SubSeq(q, index + 2, Len(q))

\* the arguments onStateChange gets for a state of the controller
StateTuple(enabled, count, mode) ==
    [enabled |-> enabled, count |-> count, mode |-> mode, locked |-> FALSE]

\* a call of c.onStateChange
Notify(enabled, count, mode, locked) ==
    /\ lastNotify' = [enabled |-> enabled, count |-> count, mode |-> mode, locked |-> locked]
    /\ notifyFlip' = ~notifyFlip

\* a successful windows.Write: the clipboard changes, the sequence number
\* advances and the system posts WM_CLIPBOARDUPDATE to the listener window
WriteOK(content) ==
    /\ clipboard' = ClipOf(content)
    /\ clipSeq' = clipSeq + 1
    /\ clipOwner' = "program"
    /\ wmQueue' = wmQueue + 1
\* a windows.Write that fails before the clipboard was changed
WriteFail == UNCHANGED <<clipboard, clipSeq, clipOwner, wmQueue>>

Goto(t, label) == pc' = [pc EXCEPT ![t] = label]
Return(t) == pc' = [pc EXCEPT ![t] = "idle"] /\ loc' = [loc EXCEPT ![t] = NoLocals]

\* a new call runs on the free goroutine of lowest number (goroutines are
\* interchangeable, so one representative of each assignment is enough)
CanStart(t) == pc[t] = "idle" /\ \A u \in OpThreads : u < t => pc[u] # "idle"

\* an operation is started: one unit of the budget is used
StartOp == opsLeft > 0 /\ opsLeft' = opsLeft - 1

SetLoc(t, field, value) == loc' = [loc EXCEPT ![t][field] = value]

(* ---------------- Controller operations ---------------- *)
\* Controller.ClearQueue
ClearQueue(t) ==
    /\ UNCHANGED inputVars
    /\ CanStart(t) /\ mu = NoOwner
    /\ StartOp
    /\ lastOp' = "ClearQueue"
    /\ queue' = <<>>
    /\ Notify(queueEnabled, 0, orderStrategy, TRUE)
    /\ UNCHANGED <<queueEnabled, history, snapshotOnEnable, selfEventsRing, ringIndex,
                   orderStrategy, mu, osVars, thrVars>>

\* Controller.ToggleOrder
ToggleOrder(t) ==
    /\ UNCHANGED inputVars
    /\ CanStart(t) /\ mu = NoOwner
    /\ StartOp
    /\ lastOp' = "ToggleOrder"
    /\ orderStrategy' = IF orderStrategy = "LIFO" THEN "FIFO" ELSE "LIFO"
    /\ Notify(queueEnabled, Len(queue), orderStrategy', TRUE)
    /\ UNCHANGED <<queueEnabled, queue, history, snapshotOnEnable, selfEventsRing, ringIndex,
                   mu, osVars, thrVars>>

\* Controller.SetOrderStrategy: an unsupported order is an error, the
\* current order is accepted without a change
SetOrderStrategy(t, order) ==
    /\ UNCHANGED inputVars
    /\ CanStart(t) /\ mu = NoOwner
    /\ StartOp
    /\ lastOp' = "SetOrderStrategy"
    /\ IF order # "LIFO" /\ order # "FIFO"
         THEN /\ Goto(t, "ret_err")
              /\ UNCHANGED <<orderStrategy, lastNotify, notifyFlip>>
         ELSE IF orderStrategy = order
           THEN UNCHANGED <<orderStrategy, lastNotify, notifyFlip, pc>>
           ELSE /\ orderStrategy' = order
                /\ Notify(queueEnabled, Len(queue), order, TRUE)
                /\ UNCHANGED pc
    /\ UNCHANGED <<queueEnabled, queue, history, snapshotOnEnable, selfEventsRing, ringIndex,
                   mu, osVars, loc, wpc, recorded, ocuOutcome>>

\* the bounds test with the upper bound off by one
InvalidIndexOffByOne(index, q) == index < 0 \/ index > Len(q)

\* the bounds test of RemoveItem
InvalidIndex(index, q) == index < 0 \/ index >= Len(q)

\* Controller.RemoveItem (index is 0-based, as in the source)
RemoveItem(t, index) ==
    /\ UNCHANGED inputVars
    /\ CanStart(t) /\ mu = NoOwner
    /\ StartOp
    /\ lastOp' = "RemoveItem"
    /\ IF InvalidIndex(index, queue)
         THEN /\ Goto(t, "ret_err")
              /\ UNCHANGED <<queue, lastNotify, notifyFlip>>
         ELSE /\ queue' = RemoveAt(queue, index)
              /\ Notify(queueEnabled, Len(queue'), orderStrategy, TRUE)
              /\ UNCHANGED pc
    /\ UNCHANGED <<queueEnabled, history, snapshotOnEnable, selfEventsRing, ringIndex,
                   orderStrategy, mu, osVars, loc, wpc, recorded, ocuOutcome>>

\* the caller of an operation that returned an error goes on
ReturnErr(t) ==
    /\ UNCHANGED inputVars
    /\ pc[t] = "ret_err"
    /\ Return(t)
    /\ UNCHANGED <<ctlVars, envVars, wpc, recorded, ocuOutcome>>

\* Controller.ToggleQueue, first critical section: the enabling branch only
\* tests queueEnabled and unlocks, the disabling branch commits and unlocks
ToggleQueueBegin(t) ==
    /\ UNCHANGED inputVars
    /\ CanStart(t) /\ mu = NoOwner
    /\ StartOp
    /\ lastOp' = "ToggleQueue"
    /\ IF ~queueEnabled
         THEN /\ Goto(t, "tq_read")
              /\ UNCHANGED <<ctlVars, osVars, loc>>
         ELSE /\ queueEnabled' = FALSE
              /\ queue' = <<>>
              /\ snapshotOnEnable' = NoSnapshot
              /\ loc' = [loc EXCEPT ![t].item = IF snapshotOnEnable # NoSnapshot
                                                   THEN snapshotOnEnable ELSE @,
                                     ![t].after = StateTuple(FALSE, 0, orderStrategy)]
              /\ Goto(t, IF snapshotOnEnable # NoSnapshot THEN "tq_write" ELSE "tq_notify_off")
              /\ UNCHANGED <<history, selfEventsRing, ringIndex, orderStrategy, mu,
                             lastNotify, notifyFlip, osVars>>
    /\ UNCHANGED <<wpc, recorded, ocuOutcome>>

\* ToggleQueue, enabling: snap, err := windows.Read() outside the lock; on an
\* error snap is the zero content and the operation goes on
ToggleQueueRead(t) ==
    /\ UNCHANGED inputVars
    /\ pc[t] = "tq_read"
    /\ \E ok \in BOOLEAN :
         SetLoc(t, "before", IF ok THEN ReadClipboard ELSE ZeroContent)
    /\ Goto(t, "tq_commit")
    /\ UNCHANGED <<ctlVars, envVars, wpc, recorded, ocuOutcome>>

\* the second critical section with the snapshot pointer left as it was
ToggleQueueCommitKeepsSnapshot(t) ==
    /\ UNCHANGED inputVars
    /\ pc[t] = "tq_commit" /\ mu = NoOwner
    /\ queue' = <<>>
    /\ queueEnabled' = TRUE
    /\ SetLoc(t, "after", StateTuple(TRUE, 0, orderStrategy))
    /\ Goto(t, "tq_notify_on")
    /\ UNCHANGED <<history, snapshotOnEnable, selfEventsRing, ringIndex, orderStrategy, mu,
                   lastNotify, notifyFlip, envVars, wpc, recorded, ocuOutcome>>

\* ToggleQueue, enabling: second critical section
ToggleQueueCommit(t) ==
    /\ UNCHANGED inputVars
    /\ pc[t] = "tq_commit" /\ mu = NoOwner
    /\ snapshotOnEnable' = loc[t].before
    /\ queue' = <<>>
    /\ queueEnabled' = TRUE
    /\ SetLoc(t, "after", StateTuple(TRUE, 0, orderStrategy))
    /\ Goto(t, "tq_notify_on")
    /\ UNCHANGED <<history, selfEventsRing, ringIndex, orderStrategy, mu, lastNotify,
                   notifyFlip, envVars, wpc, recorded, ocuOutcome>>

\* ToggleQueue: the onStateChange calls after the unlock; the enabling branch
\* reads the fields again, the disabling branch passes the count 0
ToggleQueueNotify(t) ==
    /\ UNCHANGED inputVars
    /\ pc[t] \in {"tq_notify_on", "tq_notify_off"}
    /\ Notify(queueEnabled, IF pc[t] = "tq_notify_on" THEN Len(queue) ELSE 0,
              orderStrategy, FALSE)
    /\ Return(t)
    /\ UNCHANGED <<queueEnabled, queue, history, snapshotOnEnable, selfEventsRing, ringIndex,
                   orderStrategy, mu, envVars, wpc, recorded, ocuOutcome>>

\* ToggleQueue, disabling: windows.Write(*snapshotToRestore); an error is logged
ToggleQueueWrite(t) ==
    /\ UNCHANGED inputVars
    /\ pc[t] = "tq_write"
    /\ \/ WriteOK(loc[t].item)
       \/ WriteFail
    /\ Goto(t, "tq_seq")
    /\ UNCHANGED <<ctlVars, clipEvents, now, budget, loc, wpc, recorded, ocuOutcome>>

\* the early return with a notification sent before it
PasteNextSkipNotifies(t) ==
    /\ Notify(queueEnabled, Len(queue), orderStrategy, TRUE)
    /\ UNCHANGED <<queue, pc, loc>>

\* PasteNext, the early returns: the queue is disabled or empty
PasteNextSkip(t) == UNCHANGED <<queue, lastNotify, notifyFlip, pc, loc>>

\* Controller.PasteNext, the critical section: the early returns, the dequeue
\* and the onStateChange call before the unlock
PasteNextBegin(t) ==
    /\ UNCHANGED inputVars
    /\ CanStart(t) /\ mu = NoOwner
    /\ StartOp
    /\ lastOp' = "PasteNext"
    /\ IF ~queueEnabled \/ Len(queue) = 0
         THEN PasteNextSkip(t)
         ELSE /\ LET d == PasteNextDequeue(queue, orderStrategy) IN
                   /\ queue' = d.rest
                   /\ SetLoc(t, "item", d.item)
                   /\ Notify(queueEnabled, Len(d.rest), orderStrategy, TRUE)
              /\ Goto(t, "pn_read")
    /\ UNCHANGED <<queueEnabled, history, snapshotOnEnable, selfEventsRing, ringIndex,
                   orderStrategy, mu, osVars, wpc, recorded, ocuOutcome>>

\* the return after a failed step with the dequeued item appended again
PasteNextAbortRequeues(t) ==
    /\ Return(t)
    /\ queue' = Append(queue, loc[t].item)
    /\ UNCHANGED history

\* PasteNext: the return after a failed Read or Write: the error is logged
PasteNextAbort(t) ==
    /\ Return(t)
    /\ UNCHANGED <<queue, history>>

\* PasteNext: before, err := windows.Read(); an error ends the operation
PasteNextRead(t) ==
    /\ UNCHANGED inputVars
    /\ pc[t] = "pn_read"
    /\ \/ SetLoc(t, "before", ReadClipboard) /\ Goto(t, "pn_write") /\ UNCHANGED <<queue, history>>
       \/ PasteNextAbort(t)
    /\ UNCHANGED <<queueEnabled, snapshotOnEnable, selfEventsRing, ringIndex, orderStrategy, mu,
                   lastNotify, notifyFlip, envVars, wpc, recorded, ocuOutcome>>

\* PasteNext: windows.Write(item); an error ends the operation
PasteNextWrite(t) ==
    /\ UNCHANGED inputVars
    /\ pc[t] = "pn_write"
    /\ \/ WriteOK(loc[t].item) /\ Goto(t, "pn_seq1") /\ UNCHANGED <<loc, queue, history>>
       \/ WriteFail /\ PasteNextAbort(t)
    /\ UNCHANGED <<queueEnabled, snapshotOnEnable, selfEventsRing, ringIndex, orderStrategy, mu,
                   lastNotify, notifyFlip, clipEvents, now, budget, wpc, recorded, ocuOutcome>>

\* PasteNext: windows.SendCtrlV(); after an error the clipboard is written
\* back at once, otherwise after the restore delay
PasteNextSendCtrlV(t) ==
    /\ UNCHANGED inputVars
    /\ pc[t] = "pn_ctrlv"
    /\ \/ Goto(t, "pn_restore")
       \/ Goto(t, "pn_restore_f")
    /\ UNCHANGED <<ctlVars, envVars, loc, wpc, recorded, ocuOutcome>>

\* PasteNext: windows.Write(before); an error is logged or ignored, and
\* c.addSelfEvent(windows.GetClipboardSequenceNumber()) follows on both paths
PasteNextRestore(t) ==
    /\ UNCHANGED inputVars
    /\ pc[t] \in {"pn_restore", "pn_restore_f"}
    /\ \/ WriteOK(loc[t].before)
       \/ WriteFail
    /\ Goto(t, "pn_seq2")
    /\ UNCHANGED <<ctlVars, clipEvents, now, budget, loc, wpc, recorded, ocuOutcome>>

(* ---------------- Controller.ExecuteMacro ---------------- *)
\* the modes configuration validation accepts
MacroModes == {"type", "paste", "type_hw", "sequence"}
\* windows.ClipboardContent{Type: windows.Text, Text: macro.Text}
MacroContent == Content(Payload("Text", "m", 0), 0)

\* Controller.ExecuteMacro, the switch on macro.Mode: "type" calls
\* windows.TypeString, "paste" goes on to the clipboard, every other mode is
\* an error; the controller's lock is not taken
ExecuteMacroBegin(t, mode) ==
    /\ UNCHANGED inputVars
    /\ CanStart(t)
    /\ StartOp
    /\ lastOp' = "ExecuteMacro"
    /\ IF mode = "type" THEN \/ UNCHANGED pc
                             \/ Goto(t, "ret_err")
       ELSE IF mode = "paste" THEN Goto(t, "em_read")
       ELSE Goto(t, "ret_err")
    /\ UNCHANGED <<ctlVars, osVars, loc, wpc, recorded, ocuOutcome>>

\* ExecuteMacro: oldContent, err := windows.Read(); an error is returned
ExecuteMacroRead(t) ==
    /\ UNCHANGED inputVars
    /\ pc[t] = "em_read"
    /\ \/ SetLoc(t, "before", ReadClipboard) /\ Goto(t, "em_write")
       \/ Goto(t, "ret_err") /\ UNCHANGED loc
    /\ UNCHANGED <<ctlVars, envVars, wpc, recorded, ocuOutcome>>

\* ExecuteMacro: windows.Write(content); an error is returned
ExecuteMacroWrite(t) ==
    /\ UNCHANGED inputVars
    /\ pc[t] = "em_write"
    /\ \/ WriteOK(MacroContent) /\ Goto(t, "em_seq1")
       \/ WriteFail /\ Goto(t, "ret_err")
    /\ UNCHANGED <<ctlVars, clipEvents, now, budget, loc, wpc, recorded, ocuOutcome>>

\* ExecuteMacro: windows.SendCtrlV(); after an error the clipboard is written
\* back at once and the error returned
ExecuteMacroSendCtrlV(t) ==
    /\ UNCHANGED inputVars
    /\ pc[t] = "em_ctrlv"
    /\ \/ Goto(t, "em_restore")
       \/ Goto(t, "em_restore_f")
    /\ UNCHANGED <<ctlVars, envVars, loc, wpc, recorded, ocuOutcome>>

\* ExecuteMacro: windows.Write(oldContent); after SendCtrlV failed its error
\* is ignored, otherwise it is returned before any addSelfEvent
ExecuteMacroRestore(t) ==
    /\ UNCHANGED inputVars
    /\ pc[t] \in {"em_restore", "em_restore_f"}
    /\ \/ WriteOK(loc[t].before)
          /\ Goto(t, IF pc[t] = "em_restore" THEN "em_seq2" ELSE "em_seq2f")
       \/ WriteFail
          /\ Goto(t, IF pc[t] = "em_restore" THEN "ret_err" ELSE "em_seq2f")
    /\ UNCHANGED <<ctlVars, clipEvents, now, budget, loc, wpc, recorded, ocuOutcome>>

\* the argument of c.addSelfEvent(windows.GetClipboardSequenceNumber()) is
\* evaluated before addSelfEvent asks for the lock
AfterSeq(label) ==
    CASE label = "tq_seq" -> "tq_rec"
      [] label = "pn_seq1" -> "pn_rec1"
      [] label = "pn_seq2" -> "pn_rec2"
      [] label = "em_seq1" -> "em_rec1"
      [] label = "em_seq2" -> "em_rec2"
      [] label = "em_seq2f" -> "em_rec2f"
AfterRec(label) ==
    CASE label = "tq_rec" -> "tq_notify_off"
      [] label = "pn_rec1" -> "pn_ctrlv"
      [] label = "pn_rec2" -> "idle"
      [] label = "em_rec1" -> "em_ctrlv"
      [] label = "em_rec2" -> "idle"
      [] label = "em_rec2f" -> "ret_err"

GetClipboardSequenceNumber(t) ==
    /\ UNCHANGED inputVars
    /\ pc[t] \in {"tq_seq", "pn_seq1", "pn_seq2", "em_seq1", "em_seq2", "em_seq2f"}
    /\ SetLoc(t, "seq", clipSeq)
    /\ Goto(t, AfterSeq(pc[t]))
    /\ UNCHANGED <<ctlVars, envVars, wpc, recorded, ocuOutcome>>

\* Controller.addSelfEvent
addSelfEvent(t) ==
    /\ UNCHANGED inputVars
    /\ pc[t] \in {"tq_rec", "pn_rec1", "pn_rec2", "em_rec1", "em_rec2", "em_rec2f"}
    /\ mu = NoOwner
    /\ addSelfEventLocked(loc[t].seq)
    /\ IF AfterRec(pc[t]) = "idle" THEN Return(t) ELSE Goto(t, AfterRec(pc[t])) /\ UNCHANGED loc
    /\ UNCHANGED <<queueEnabled, queue, history, snapshotOnEnable, orderStrategy, mu,
                   lastNotify, notifyFlip, envVars, wpc, ocuOutcome>>

\* Controller.CopyItem: the lookup in history and windows.Write(item), with
\* the lock held; i is the position of the item whose ID was asked for
CopyItem(t, i) ==
    /\ UNCHANGED inputVars
    /\ CanStart(t) /\ mu = NoOwner
    /\ i \in 1..Len(history)
    /\ StartOp
    /\ lastOp' = "CopyItem"
    /\ \/ WriteOK(history[i]) /\ mu' = t /\ Goto(t, "cp_rec")
       \/ WriteFail /\ UNCHANGED <<mu, pc>>
    /\ UNCHANGED <<queueEnabled, queue, history, snapshotOnEnable, selfEventsRing, ringIndex,
                   orderStrategy, lastNotify, notifyFlip, clipEvents, now, loc,
                   wpc, recorded, ocuOutcome>>

\* CopyItem: c.addSelfEventLocked(windows.GetClipboardSequenceNumber()), unlock
CopyItemRecord(t) ==
    /\ UNCHANGED inputVars
    /\ pc[t] = "cp_rec" /\ mu = t
    /\ addSelfEventLocked(clipSeq)
    /\ mu' = NoOwner
    /\ Return(t)
    /\ UNCHANGED <<queueEnabled, queue, history, snapshotOnEnable, orderStrategy,
                   lastNotify, notifyFlip, envVars, wpc, ocuOutcome>>

(* ---------------- the clipboard-event worker of main ---------------- *)
\* for range clipEvents
WorkerReceive ==
    /\ UNCHANGED inputVars
    /\ wpc = "w_idle" /\ clipEvents > 0
    /\ clipEvents' = clipEvents - 1
    /\ wpc' = "w_debounce"
    /\ UNCHANGED <<ctlVars, clipboard, clipSeq, clipOwner, wmQueue, now, budget, pc, loc,
                   recorded, ocuOutcome>>

\* the debounce sleep is over: drainLoop empties the channel
WorkerDrain ==
    /\ UNCHANGED inputVars
    /\ wpc = "w_debounce"
    /\ clipEvents' = 0
    /\ wpc' = "ocu_lock"
    /\ UNCHANGED <<ctlVars, clipboard, clipSeq, clipOwner, wmQueue, now, budget, pc, loc,
                   recorded, ocuOutcome>>

\* Controller.OnClipboardUpdate: Lock, seq := GetClipboardSequenceNumber(),
\* the self-event test
OnClipboardUpdateLock ==
    /\ UNCHANGED inputVars
    /\ wpc = "ocu_lock" /\ mu = NoOwner
    /\ IF isSelfEvent(clipSeq)
         THEN /\ wpc' = "w_idle"
              /\ ocuOutcome' = "self"
              /\ UNCHANGED mu
         ELSE /\ wpc' = "ocu_read"
              /\ mu' = Worker
              /\ ocuOutcome' = "running"
    /\ UNCHANGED <<queueEnabled, queue, history, snapshotOnEnable, selfEventsRing, ringIndex,
                   orderStrategy, lastNotify, notifyFlip, envVars, pc, loc, recorded>>

\* the content appended to the queue of a disabled controller only
QueueAfterUpdateNegated(q, content, enabled) == IF enabled THEN q ELSE Append(q, content)

\* the content appended to the queue whether the queue is enabled or not
QueueAfterUpdateAlways(q, content, enabled) == Append(q, content)

\* OnClipboardUpdate: the content goes to the tail of the queue if the queue
\* is enabled
QueueAfterUpdate(q, content, enabled) == IF enabled THEN Append(q, content) ELSE q

\* OnClipboardUpdate: windows.Read(), the Empty test, the deduplication, the
\* appends and the deferred Unlock
OnClipboardUpdateRead ==
    /\ UNCHANGED inputVars
    /\ wpc = "ocu_read" /\ mu = Worker
    /\ \/ /\ ocuOutcome' = "readfail"
          /\ UNCHANGED <<history, queue, lastNotify, notifyFlip>>
       \/ LET content == ReadClipboard IN
            IF content.Type = "Empty"
              THEN /\ ocuOutcome' = "empty"
                   /\ UNCHANGED <<history, queue, lastNotify, notifyFlip>>
            ELSE IF IsDuplicate(content, history)
              THEN /\ ocuOutcome' = "dup"
                   /\ UNCHANGED <<history, queue, lastNotify, notifyFlip>>
            ELSE /\ history' = AppendHistory(history, content)
                 /\ ocuOutcome' = "added"
                 /\ queue' = QueueAfterUpdate(queue, content, queueEnabled)
                 /\ IF queueEnabled
                      THEN Notify(queueEnabled, Len(queue) + 1, orderStrategy, TRUE)
                      ELSE UNCHANGED <<lastNotify, notifyFlip>>
    /\ mu' = NoOwner
    /\ wpc' = "w_idle"
    /\ UNCHANGED <<queueEnabled, snapshotOnEnable, selfEventsRing, ringIndex, orderStrategy,
                   envVars, pc, loc, recorded>>

(* ---------------- the environment ---------------- *)
\* another program (the user) puts p on the clipboard
UserCopy(p) ==
    /\ UNCHANGED inputVars
    /\ StartOp
    /\ lastOp' = "UserCopy"
    /\ clipboard' = p
    /\ clipSeq' = clipSeq + 1
    /\ clipOwner' = "user"
    /\ wmQueue' = wmQueue + 1
    /\ UNCHANGED <<ctlVars, clipEvents, now, thrVars>>

\* the send of main's handler dropped whenever the worker is busy
WmClipboardUpdateBusyDrop ==
    /\ UNCHANGED inputVars
    /\ wmQueue > 0
    /\ wmQueue' = wmQueue - 1
    /\ clipEvents' = IF wpc = "w_idle" THEN 1 ELSE clipEvents
    /\ UNCHANGED <<ctlVars, clipboard, clipSeq, clipOwner, now, budget, thrVars>>

\* Host.windowProc, WM_CLIPBOARDUPDATE: h.onClipboardUpdate() is main's
\* non-blocking send to clipEvents
WmClipboardUpdate ==
    /\ UNCHANGED inputVars
    /\ wmQueue > 0
    /\ wmQueue' = wmQueue - 1
    /\ clipEvents' = 1
    /\ UNCHANGED <<ctlVars, clipboard, clipSeq, clipOwner, now, budget, thrVars>>

\* time passes
Tick ==
    /\ UNCHANGED inputVars
    /\ now + TickMs <= MaxNow
    /\ now' = now + TickMs
    /\ UNCHANGED <<ctlVars, clipboard, clipSeq, clipOwner, wmQueue, clipEvents, budget, thrVars>>

(* ---------------- InputSignature and SignatureMatcher ---------------- *)
SourceKeyboard == 0
SourceMouseButton == 1
ModCtrl == 1

SourceTypes == {SourceKeyboard, SourceMouseButton}
Modifiers == {0, ModCtrl}
\* raw data of the recorded input events
RawDatas == {<<>>, <<65>>, <<66>>}
RegistrationIDs == {"toggle", "paste"}

HashMod == 2^HashBits

\* a xor b on n bits
RECURSIVE Xor(_, _, _)
Xor(a, b, n) ==
    IF n = 0 THEN 0
    ELSE (((a % 2) + (b % 2)) % 2) + 2 * Xor(a \div 2, b \div 2, n - 1)

\* hash.Write of FNV-1a on the bytes lo..hi: for every byte, xor then
\* multiply by the prime
RECURSIVE fnvRange(_, _, _, _)
fnvRange(h, bytes, lo, hi) ==
    IF lo > hi THEN h
    ELSE IF lo = hi
      THEN (Xor(h, bytes[lo] % HashMod, HashBits) * FNVPrime) % HashMod
      ELSE LET mid == (lo + hi) \div 2
               left == fnvRange(h, bytes, lo, mid)
           IN IF left < HashMod THEN fnvRange(left, bytes, mid + 1, hi) ELSE left

fnvWrite(h, bytes) == fnvRange(h, bytes, 1, Len(bytes))

computeHash(sourceType, modifierState, rawData) ==
    fnvWrite(fnvWrite(fnvWrite(FNVOffset % HashMod, <<sourceType>>),
                      <<modifierState>>), rawData)

NewInputSignature(sourceType, rawData, modifiers) ==
    [SourceType |-> sourceType, RawData |-> rawData, ModifierState |-> modifiers,
     Hash |-> computeHash(sourceType, modifiers, rawData)]

\* Equals that stops after the hash
EqualsHashOnly(s, other) == s.Hash = other.Hash

Equals(s, other) ==
    /\ s.Hash = other.Hash
    /\ s.SourceType = other.SourceType
    /\ s.ModifierState = other.ModifierState
    /\ s.RawData = other.RawData

\* the signatures the hooks and registerConfiguredHotkeys can build
InputSignatures ==
    { NewInputSignature(st, raw, m) : st \in SourceTypes, raw \in RawDatas, m \in Modifiers }

\* the hotkeys the configuration can name; the first two share a hash
HotkeySignatures ==
    { NewInputSignature(SourceKeyboard, <<>>, 0),
      NewInputSignature(SourceKeyboard, <<66>>, 0),
      NewInputSignature(SourceKeyboard, <<65>>, 0) }

\* Match returns nil
NoCallback == 0
NoMatch == [called |-> FALSE]

NoCall == [op |-> "none", id |-> ""]

NewSignatureMatcher ==
    /\ signatures = <<>>
    /\ nextCallback = 0
    /\ matchResult = NoMatch
    /\ regsLeft = MaxRegistrations
    /\ lastCall = NoCall

\* regs without its element i, the last element moved into its place
RemoveRegSwap(regs, i) ==
    IF i = Len(regs) THEN SubSeq(regs, 1, i - 1)
    ELSE [k \in 1..(Len(regs) - 1) |-> IF k = i THEN regs[Len(regs)] ELSE regs[k]]

\* regs without its element i
RemoveReg(regs, i) == SubSeq(regs, 1, i - 1) \o SubSeq(regs, i + 1, Len(regs))

\* the first index of regs whose registration has this ID, 0 if none
FirstWithID(regs, id) ==
    IF \E i \in 1..Len(regs) : regs[i].ID = id
    THEN CHOOSE i \in 1..Len(regs) :
             /\ regs[i].ID = id
             /\ \A j \in 1..(i - 1) : regs[j].ID # id
    ELSE 0

\* every call hands over a new callback function
Register(sig, id) ==
    /\ regsLeft > 0
    /\ regsLeft' = regsLeft - 1
    /\ lastCall' = [op |-> "Register", id |-> id]
    /\ nextCallback' = nextCallback + 1
    /\ LET reg == [Signature |-> sig, Callback |-> nextCallback + 1, ID |-> id]
           old == IF sig.Hash \in DOMAIN signatures THEN signatures[sig.Hash] ELSE <<>>
       IN signatures' = [h \in DOMAIN signatures \cup {sig.Hash} |->
                            IF h = sig.Hash THEN Append(old, reg) ELSE signatures[h]]
    /\ matchResult' = NoMatch
    /\ UNCHANGED <<controllerVars, hostVars, codecVars, listenerVars>>

\* the map is ranged over in any order: the first bucket met that holds the
\* ID loses its first registration with it
Unregister(id) ==
    /\ \/ /\ \A h \in DOMAIN signatures : FirstWithID(signatures[h], id) = 0
          /\ UNCHANGED signatures
       \/ \E hash \in DOMAIN signatures :
             LET i == FirstWithID(signatures[hash], id)
                 rest == RemoveReg(signatures[hash], i)
             IN /\ i # 0
                /\ signatures' = [h \in IF rest = <<>> THEN DOMAIN signatures \ {hash}
                                                        ELSE DOMAIN signatures |->
                                     IF h = hash THEN rest ELSE signatures[h]]
    /\ matchResult' = NoMatch
    /\ lastCall' = [op |-> "Unregister", id |-> id]
    /\ UNCHANGED <<nextCallback, regsLeft, controllerVars, hostVars, codecVars, listenerVars>>

UnregisterAll ==
    /\ signatures' = <<>>
    /\ matchResult' = NoMatch
    /\ lastCall' = [op |-> "UnregisterAll", id |-> ""]
    /\ UNCHANGED <<nextCallback, regsLeft, controllerVars, hostVars, codecVars, listenerVars>>

\* the callback of the last registration of the bucket that Equals sig
MatchCallbackLast(regs, sig) ==
    IF \E i \in 1..Len(regs) : Equals(regs[i].Signature, sig)
    THEN LET i == CHOOSE k \in 1..Len(regs) :
                      /\ Equals(regs[k].Signature, sig)
                      /\ \A j \in (k + 1)..Len(regs) : ~Equals(regs[j].Signature, sig)
         IN regs[i].Callback
    ELSE NoCallback

\* the callback of the first registration of the bucket that Equals sig
MatchCallback(regs, sig) ==
    IF \E i \in 1..Len(regs) : Equals(regs[i].Signature, sig)
    THEN LET i == CHOOSE k \in 1..Len(regs) :
                      /\ Equals(regs[k].Signature, sig)
                      /\ \A j \in 1..(k - 1) : ~Equals(regs[j].Signature, sig)
         IN regs[i].Callback
    ELSE NoCallback

\* what Match returns for sig
MatchReturn(sig) ==
    IF sig.Hash \in DOMAIN signatures
    THEN MatchCallback(signatures[sig.Hash], sig)
    ELSE NoCallback

Match(sig) ==
    /\ matchResult' = [called |-> TRUE, sig |-> sig, callback |-> MatchReturn(sig)]
    /\ lastCall' = [op |-> "Match", id |-> ""]
    /\ UNCHANGED <<signatures, nextCallback, regsLeft, controllerVars, hostVars, codecVars, listenerVars>>

(* ---------------- serialisation of signatures ---------------- *)
FormatVersion == 1
MaxUint16 == 65535
PadChar == 64
InvalidChar == 65

\* uint16(n), little endian
PutUint16(n) == <<(n % (MaxUint16 + 1)) % 256, (n % (MaxUint16 + 1)) \div 256>>

ToBytes(s) ==
    <<FormatVersion, s.SourceType, s.ModifierState>> \o PutUint16(Len(s.RawData)) \o s.RawData

Failed(err) == [ok |-> FALSE, err |-> err]

\* binary.Read leaves rawLen at 0 when fewer than two bytes are left;
\* buf.Read fills RawData with the bytes that are there, the rest stays 0
SignatureFromBytes(data) ==
    IF Len(data) < 4 THEN Failed("signature data too short")
    ELSE IF data[1] # FormatVersion THEN Failed("unsupported signature version")
    ELSE LET rawLen == IF Len(data) >= 5 THEN data[4] + 256 * data[5] ELSE 0
             avail == IF Len(data) >= 5 THEN Len(data) - 5 ELSE 0
             raw == <<>> \o [i \in 1..rawLen |-> IF i <= avail THEN data[5 + i] ELSE 0]
         IN [ok |-> TRUE, sig |-> NewInputSignature(data[2], raw, data[3])]

\* base64.StdEncoding.EncodeToString: a string is the sequence of the
\* alphabet positions 0..63 of its characters, PadChar for '='
EncodeToString(src) ==
    LET n == Len(src)
        byteAt(i) == IF i <= n THEN src[i] ELSE 0
        quantum(g) == byteAt(3 * g + 1) * 65536 + byteAt(3 * g + 2) * 256 + byteAt(3 * g + 3)
        char(k) ==
            LET g == (k - 1) \div 4
                pos == (k - 1) % 4
            IN IF 3 * g + pos > n THEN PadChar
               ELSE (quantum(g) \div (64 ^ (3 - pos))) % 64
    IN <<>> \o [k \in 1..(4 * ((n + 2) \div 3)) |-> char(k)]

\* base64.StdEncoding.DecodeString: quanta of four characters, padding only
\* at the end of the last one, bits beyond the last byte ignored
DecodeString(str) ==
    LET n == Len(str)
        pads == IF n = 0 THEN 0
                ELSE IF str[n] # PadChar THEN 0
                ELSE IF str[n - 1] # PadChar THEN 1 ELSE 2
        wellFormed ==
            /\ n % 4 = 0
            /\ \A k \in 1..(n - pads) : str[k] < PadChar
            /\ \A k \in (n - pads + 1)..n : str[k] = PadChar
        sextet(k) == IF str[k] = PadChar THEN 0 ELSE str[k]
        quantum(g) == sextet(4 * g + 1) * 262144 + sextet(4 * g + 2) * 4096
                        + sextet(4 * g + 3) * 64 + sextet(4 * g + 4)
        byte(j) == (quantum((j - 1) \div 3) \div (256 ^ (2 - ((j - 1) % 3)))) % 256
    IN IF wellFormed
       THEN [ok |-> TRUE, data |-> <<>> \o [j \in 1..(3 * (n \div 4) - pads) |-> byte(j)]]
       ELSE Failed("illegal base64 data")

ToBase64(s) == EncodeToString(ToBytes(s))

SignatureFromBase64(encoded) ==
    LET decoded == DecodeString(encoded)
    IN IF ~decoded.ok THEN decoded ELSE SignatureFromBytes(decoded.data)

\* the signatures handed to the codec: those of the recorded events and one
\* with n bytes of raw data
CodecSignatures(n) ==
    InputSignatures \cup
      { NewInputSignature(SourceKeyboard, <<>> \o [i \in 1..n |-> 0], 0) }

WireBytes == {0, 1, 2}
RECURSIVE SeqsUpTo(_, _)
SeqsUpTo(S, n) ==
    IF n = 0 THEN {<<>>}
    ELSE LET shorter == SeqsUpTo(S, n - 1)
         IN shorter \cup { Append(q, x) : q \in { r \in shorter : Len(r) = n - 1 }, x \in S }

\* bytes that did not come from ToBytes
WireInputs == SeqsUpTo(WireBytes, MaxWireLen)

\* strings of the configuration that did not come from ToBase64
ConfigTexts ==
    { EncodeToString(d) : d \in WireInputs }
      \cup SeqsUpTo({0, 16, PadChar, InvalidChar}, MaxTextLen)

NoSignature == [none |-> TRUE]
\* no bytes, no string at hand (-1 is neither a byte nor a character)
NoData == <<-1>>
NoResult == [called |-> FALSE]

\* nothing was handed to the codec yet; every behaviour follows one
\* signature, byte sequence or string through it
CodecIdle ==
    /\ codecSig = NoSignature
    /\ codecData = NoData
    /\ codecText = NoData
    /\ codecResult = NoResult

\* s.ToBytes()
Serialize(s) ==
    /\ CodecIdle
    /\ codecSig' = s
    /\ codecData' = ToBytes(s)
    /\ codecText' = NoData
    /\ codecResult' = NoResult
    /\ UNCHANGED <<controllerVars, hostVars, matcherVars, listenerVars>>

\* bytes from elsewhere
ReceiveBytes(data) ==
    /\ CodecIdle
    /\ codecSig' = NoSignature
    /\ codecData' = data
    /\ codecText' = NoData
    /\ codecResult' = NoResult
    /\ UNCHANGED <<controllerVars, hostVars, matcherVars, listenerVars>>

\* SignatureFromBytes of the bytes at hand
Deserialize ==
    /\ codecData # NoData
    /\ codecResult' = [called |-> TRUE, op |-> "SignatureFromBytes",
                       roundTrip |-> codecSig # NoSignature,
                       result |-> SignatureFromBytes(codecData)]
    /\ UNCHANGED <<codecSig, codecData, codecText, controllerVars, hostVars, matcherVars, listenerVars>>

\* CaptureHotkeyWithDisplay: "sig:" + sig.ToBase64()
SaveHotkey(s) ==
    /\ CodecIdle
    /\ codecSig' = s
    /\ codecData' = ToBytes(s)
    /\ codecText' = EncodeToString(codecData')
    /\ codecResult' = NoResult
    /\ UNCHANGED <<controllerVars, hostVars, matcherVars, listenerVars>>

\* the configuration holds some other string after "sig:"
EditConfig(text) ==
    /\ CodecIdle
    /\ codecSig' = NoSignature
    /\ codecText' = text
    /\ codecData' = NoData
    /\ codecResult' = NoResult
    /\ UNCHANGED <<controllerVars, hostVars, matcherVars, listenerVars>>

\* registerConfiguredHotkeys: SignatureFromBase64 of the string at hand
LoadHotkey ==
    /\ codecText # NoData
    /\ codecResult' = [called |-> TRUE, op |-> "SignatureFromBase64",
                       roundTrip |-> codecSig # NoSignature,
                       result |-> SignatureFromBase64(codecText)]
    /\ UNCHANGED <<codecSig, codecData, codecText, controllerVars, hostVars, matcherVars, listenerVars>>

(* ---------------- the host: hotkey strings of the configuration ---------------- *)
\* a string is the sequence of its characters; after "sig:" the characters
\* are base64 characters, written as in EncodeToString
LowerLetters == <<"a", "b", "c", "d", "e", "f", "g", "h", "i", "j", "k", "l", "m",
                  "n", "o", "p", "q", "r", "s", "t", "u", "v", "w", "x", "y", "z">>
UpperLetters == <<"A", "B", "C", "D", "E", "F", "G", "H", "I", "J", "K", "L", "M",
                  "N", "O", "P", "Q", "R", "S", "T", "U", "V", "W", "X", "Y", "Z">>

ToUpperChar(c) ==
    IF \E i \in DOMAIN LowerLetters : LowerLetters[i] = c
    THEN UpperLetters[CHOOSE i \in DOMAIN LowerLetters : LowerLetters[i] = c]
    ELSE c

\* strings.ToUpper
ToUpper(str) == <<>> \o [i \in 1..Len(str) |-> ToUpperChar(str[i])]

\* strings.Split(str, sep) for a separator of one character
RECURSIVE Split(_, _)
Split(str, sep) ==
    IF \A i \in 1..Len(str) : str[i] # sep THEN <<str>>
    ELSE LET i == CHOOSE k \in 1..Len(str) :
                      /\ str[k] = sep
                      /\ \A j \in 1..(k - 1) : str[j] # sep
         IN <<SubSeq(str, 1, i - 1)>> \o Split(SubSeq(str, i + 1, Len(str)), sep)

\* strings.TrimSpace
RECURSIVE TrimSpace(_)
TrimSpace(str) ==
    IF Len(str) > 0 /\ str[1] = " " THEN TrimSpace(Tail(str))
    ELSE IF Len(str) > 0 /\ str[Len(str)] = " " THEN TrimSpace(SubSeq(str, 1, Len(str) - 1))
    ELSE str

\* strings.HasPrefix
HasPrefix(str, prefix) ==
    Len(str) >= Len(prefix) /\ SubSeq(str, 1, Len(prefix)) = prefix

\* strings.TrimPrefix
TrimPrefix(str, prefix) ==
    IF HasPrefix(str, prefix) THEN SubSeq(str, Len(prefix) + 1, Len(str)) ELSE str

SigPrefix == <<"s", "i", "g", ":">>

ModAlt == 2
ModShift == 4
ModWin == 8

\* mods |= bit, for a bit that is a power of two
BitOr(mods, bit) == IF (mods \div bit) % 2 = 1 THEN mods ELSE mods + bit

\* the entries of keyMap that the hotkey strings at hand can name
keyMap ==
    (<<"A">> :> 65) @@ (<<"C">> :> 67) @@ (<<"V">> :> 86) @@ (<<"F", "1">> :> 112)

\* the loop of parseHotkeyToSignature over the parts: a modifier name sets
\* its bit, a name of keyMap sets vk, any other part leaves both alone
RECURSIVE parseParts(_, _, _)
parseParts(parts, mods, vk) ==
    IF parts = <<>> THEN [mods |-> mods, vk |-> vk]
    ELSE LET part == TrimSpace(Head(parts))
         IN IF part = <<"C", "T", "R", "L">> \/ part = <<"C", "O", "N", "T", "R", "O", "L">>
              THEN parseParts(Tail(parts), BitOr(mods, ModCtrl), vk)
            ELSE IF part = <<"A", "L", "T">>
              THEN parseParts(Tail(parts), BitOr(mods, ModAlt), vk)
            ELSE IF part = <<"S", "H", "I", "F", "T">>
              THEN parseParts(Tail(parts), BitOr(mods, ModShift), vk)
            ELSE IF part = <<"W", "I", "N">>
              THEN parseParts(Tail(parts), BitOr(mods, ModWin), vk)
            ELSE parseParts(Tail(parts), mods,
                            IF part \in DOMAIN keyMap THEN keyMap[part] ELSE vk)

\* parseHotkeyToSignature returns nil
NilSignature == [ok |-> FALSE]

\* rawData of a legacy hotkey: ten bytes, the key code in the first two
LegacyRawData(vk) == PutUint16(vk) \o <<0, 0, 0, 0, 0, 0, 0, 0>>

parseHotkeyToSignature(hotkeyStr) ==
    IF HasPrefix(hotkeyStr, SigPrefix)
    THEN LET r == SignatureFromBase64(TrimPrefix(hotkeyStr, SigPrefix))
         IN IF r.ok THEN [ok |-> TRUE, sig |-> r.sig] ELSE NilSignature
    ELSE LET p == parseParts(Split(ToUpper(hotkeyStr), "+"), 0, 0)
         IN IF p.vk = 0 THEN NilSignature
            ELSE [ok |-> TRUE,
                  sig |-> NewInputSignature(SourceKeyboard, LegacyRawData(p.vk), p.mods)]

\* strings.Join(parts, "+")
RECURSIVE Join(_)
Join(parts) ==
    IF Len(parts) = 0 THEN <<>>
    ELSE IF Len(parts) = 1 THEN parts[1]
    ELSE parts[1] \o <<"+">> \o Join(Tail(parts))

\* the parts legacy hotkey strings are written with: modifier names, key
\* names, a name of no key, and an empty part
LegacyParts ==
    { <<"C", "t", "r", "l">>, <<"c", "o", "n", "t", "r", "o", "l">>, <<"A", "L", "T">>,
      <<"S", "h", "i", "f", "t">>, <<" ", "w", "i", "n">>, <<"c">>, <<"V", " ">>,
      <<"F", "1">>, <<"F", "o", "o">>, <<>> }

\* "sig:" + sig.ToBase64()
SigString(sig) == SigPrefix \o ToBase64(sig)

\* the hotkey strings handed to the host: legacy strings of up to MaxParts
\* parts, and signature strings, some of them damaged
HotkeyStrings ==
    { Join(parts) : parts \in SeqsUpTo(LegacyParts, MaxParts) }
      \cup { SigString(sig) : sig \in HotkeySignatures }
      \cup { SigPrefix \o text : text \in SeqsUpTo({0, PadChar}, 2) }

(* ---------------- package config: signatures generated from hotkey strings ---------------- *)
MOD_ALT == 1
MOD_CONTROL == 2
MOD_SHIFT == 4
MOD_WIN == 8
\* config.SourceKeyboard: the fifth constant of its block, declared with iota
configSourceKeyboard == 4

\* the loop of config.parseHotkey over the parts (the key table of the
\* package has the entries of keyMap): a part that is no modifier and no key
\* name is an error
RECURSIVE parseHotkeyParts(_, _, _, _)
parseHotkeyParts(parts, modifiers, vk, foundKey) ==
    IF parts = <<>> THEN [ok |-> foundKey, modifiers |-> modifiers, vk |-> vk]
    ELSE LET part == TrimSpace(Head(parts))
         IN IF part = <<"C", "T", "R", "L">> \/ part = <<"C", "O", "N", "T", "R", "O", "L">>
              THEN parseHotkeyParts(Tail(parts), BitOr(modifiers, MOD_CONTROL), vk, foundKey)
            ELSE IF part = <<"A", "L", "T">>
              THEN parseHotkeyParts(Tail(parts), BitOr(modifiers, MOD_ALT), vk, foundKey)
            ELSE IF part = <<"S", "H", "I", "F", "T">>
              THEN parseHotkeyParts(Tail(parts), BitOr(modifiers, MOD_SHIFT), vk, foundKey)
            ELSE IF part = <<"W", "I", "N">>
              THEN parseHotkeyParts(Tail(parts), BitOr(modifiers, MOD_WIN), vk, foundKey)
            ELSE IF part \in DOMAIN keyMap
              THEN parseHotkeyParts(Tail(parts), modifiers, keyMap[part], TRUE)
            ELSE [ok |-> FALSE, modifiers |-> 0, vk |-> 0]

\* config.parseHotkey
parseHotkey(hotkeyString) == parseHotkeyParts(Split(ToUpper(hotkeyString), "+"), 0, 0, FALSE)

\* the alphabet of base64.StdEncoding
encodeStd ==
    UpperLetters \o LowerLetters
      \o <<"0", "1", "2", "3", "4", "5", "6", "7", "8", "9", "+", "/">>

\* the characters of a base64 text given by its alphabet positions
Characters(text) ==
    <<>> \o [k \in 1..Len(text) |-> IF text[k] = PadChar THEN "=" ELSE encodeStd[text[k] + 1]]

\* config.generateSignatureFromHotkey: version, source type, modifiers, the
\* length 2 and the key code, in base64
generateSignatureFromHotkey(hotkeyString) ==
    LET p == parseHotkey(hotkeyString)
    IN IF ~p.ok THEN [ok |-> FALSE]
       ELSE [ok |-> TRUE,
             str |-> Characters(EncodeToString(<<FormatVersion, configSourceKeyboard, p.modifiers % 256>>
                                                 \o PutUint16(2) \o PutUint16(p.vk)))]

NoParse == [called |-> FALSE]
MatcherFree == [writer |-> NoOwner, readers |-> {}]

NoReload == [running |-> FALSE, fetched |-> FALSE]
\* registerConfiguredHotkeys has run for the configuration c
Reloaded(c) == [running |-> FALSE, fetched |-> TRUE, cfg |-> c, old |-> c, todo |-> <<>>]

\* the host that has started: nothing was parsed on request, no reload is
\* posted, no hook callback has matched and nobody holds the matcher's lock
HostIdle ==
    /\ parsed = NoParse
    /\ reloadPosted = 0
    /\ mmu = MatcherFree
    /\ spawned = <<>>
    /\ reloadsLeft = MaxReloads

\* Host.ParseHotkeyToSignature
ParseHotkeyToSignature(hotkeyStr) ==
    /\ ~parsed.called
    /\ parsed' = [called |-> TRUE, str |-> hotkeyStr,
                  result |-> parseHotkeyToSignature(hotkeyStr)]
    /\ UNCHANGED <<cfg, reloadPosted, mmu, spawned, reloading, reloadsLeft>>
    /\ UNCHANGED <<controllerVars, matcherVars, codecVars, listenerVars>>

\* config.EnsureSignatures: a hotkey without a signature gets the one
\* generated from its display string; the first error ends the call
EnsureSignatures ==
    /\ LET toggle == generateSignatureFromHotkey(cfg.ToggleQueueDisplay)
           paste == generateSignatureFromHotkey(cfg.PasteNextDisplay)
           doToggle == cfg.ToggleQueue = <<>> /\ cfg.ToggleQueueDisplay # <<>>
           doPaste == cfg.PasteNext = <<>> /\ cfg.PasteNextDisplay # <<>>
       IN cfg' = IF doToggle /\ ~toggle.ok THEN cfg
                 ELSE LET c == IF doToggle THEN [cfg EXCEPT !.ToggleQueue = toggle.str] ELSE cfg
                      IN IF doPaste /\ paste.ok THEN [c EXCEPT !.PasteNext = paste.str] ELSE c
    /\ UNCHANGED <<parsed, reloadPosted, mmu, spawned, reloading, reloadsLeft>>
    /\ UNCHANGED <<controllerVars, matcherVars, codecVars, listenerVars>>

(* ---------------- the host: configuration and registration of hotkeys ---------------- *)
WM_KEYDOWN == 256
WM_SYSKEYDOWN == 260

\* uint32(n), little endian
PutUint32(n) == <<n % 256, (n \div 256) % 256, (n \div 65536) % 256, (n \div 16777216) % 256>>

\* the signature the keyboard hook builds: key code, scan code, flags and
\* the message, with the modifiers held down
KeyboardSignature(vkCode, scanCode, flags, wParam, mods) ==
    NewInputSignature(SourceKeyboard,
                      PutUint16(vkCode) \o PutUint16(scanCode) \o PutUint32(flags)
                        \o PutUint16(wParam),
                      mods)

\* key presses: Ctrl+Alt+C, Ctrl+Alt+V, Alt+C and F1
KeyEvents ==
    { KeyboardSignature(67, 46, 0, WM_KEYDOWN, ModCtrl + ModAlt),
      KeyboardSignature(86, 47, 0, WM_KEYDOWN, ModCtrl + ModAlt),
      KeyboardSignature(67, 46, 0, WM_KEYDOWN, ModAlt),
      KeyboardSignature(112, 59, 0, WM_KEYDOWN, 0) }

AltC == <<"A", "l", "t", "+", "C">>
AltV == <<"A", "l", "t", "+", "V">>

\* "sig:AQADCgBDAC4AAAAAAAAB" and "sig:AQADCgBWAC8AAAAAAAAB"
defaultConfig ==
    [ToggleQueue |-> SigPrefix \o <<0, 16, 0, 3, 2, 32, 1, 3, 0, 2, 56, 0, 0, 0, 0, 0, 0, 0, 0, 1>>,
     PasteNext |-> SigPrefix \o <<0, 16, 0, 3, 2, 32, 1, 22, 0, 2, 60, 0, 0, 0, 0, 0, 0, 0, 0, 1>>,
     Macros |-> <<>>]

\* a macro on F1 with a captured signature
MacroCaptured ==
    [Signature |-> SigString(KeyboardSignature(112, 59, 0, WM_KEYDOWN, 0)),
     Hotkey |-> <<"F", "1">>, Mode |-> "paste"]

\* the configurations at hand: hotkeys in both forms, a toggle hotkey that
\* names no key, an empty paste hotkey, with and without a macro
Configs ==
    { defaultConfig,
      [ToggleQueue |-> AltC, PasteNext |-> defaultConfig.PasteNext, Macros |-> <<MacroCaptured>>],
      [ToggleQueue |-> AltC, PasteNext |-> AltV, Macros |-> <<>>],
      [ToggleQueue |-> <<"F", "o", "o">>, PasteNext |-> <<>>, Macros |-> <<>>],
      [ToggleQueue |-> defaultConfig.ToggleQueue, PasteNext |-> <<>>, Macros |-> <<MacroCaptured>>] }

\* "macro:" + hotkeyStr
MacroID(hotkeyStr) == <<"m", "a", "c", "r", "o", ":">> \o hotkeyStr

\* a hotkey of the configuration: the string if it parses, else the fallback
WithFallback(hotkeyStr, fallback, id) ==
    LET sig == parseHotkeyToSignature(hotkeyStr)
        used == IF sig.ok THEN sig ELSE parseHotkeyToSignature(fallback)
    IN IF used.ok THEN <<[sig |-> used.sig, id |-> id]>> ELSE <<>>

\* the macros loop of registerConfiguredHotkeys
RECURSIVE MacroRegistrations(_)
MacroRegistrations(macros) ==
    IF macros = <<>> THEN <<>>
    ELSE LET macro == Head(macros)
             sig == parseHotkeyToSignature(macro.Signature)
             hotkeyStr == IF macro.Signature = <<>> \/ ~sig.ok THEN macro.Hotkey
                                                               ELSE macro.Signature
             used == IF macro.Signature = <<>> \/ ~sig.ok
                       THEN parseHotkeyToSignature(macro.Hotkey) ELSE sig
         IN (IF used.ok THEN <<[sig |-> used.sig, id |-> MacroID(hotkeyStr)]>> ELSE <<>>)
              \o MacroRegistrations(Tail(macros))

\* the Register calls registerConfiguredHotkeys makes for a configuration,
\* in order
registerConfiguredHotkeys(c) ==
    WithFallback(c.ToggleQueue, AltC, "toggle_queue")
      \o WithFallback(c.PasteNext, AltV, "paste_next")
      \o MacroRegistrations(c.Macros)

\* m.signatures[sig.Hash] = append(m.signatures[sig.Hash], reg)
AppendRegistration(sigs, sig, id, callback) ==
    LET reg == [Signature |-> sig, Callback |-> callback, ID |-> id]
        old == IF sig.Hash \in DOMAIN sigs THEN sigs[sig.Hash] ELSE <<>>
    IN [h \in DOMAIN sigs \cup {sig.Hash} |->
           IF h = sig.Hash THEN Append(old, reg) ELSE sigs[h]]

\* UnregisterAll leaving the registry as it is
KeptRegistry(sigs) == sigs

\* m.signatures = make(map[uint64][]*RegisteredSignature)
ClearedRegistry(sigs) == <<>>

(* SignatureMatcher.mu, a sync.RWMutex *)
\* the window thread, numbered after the goroutines of the controller
\* operations
WindowThread == NumThreads + 1

MatcherCanRLock == mmu.writer = NoOwner
MatcherCanLock == mmu.writer = NoOwner /\ mmu.readers = {}
MatcherRLock(who) == [mmu EXCEPT !.readers = @ \cup {who}]
MatcherRUnlockSkipped(who) == mmu
MatcherRUnlock(who) == [mmu EXCEPT !.readers = @ \ {who}]
MatcherLock(who) == [mmu EXCEPT !.writer = who]
MatcherUnlock(who) == [mmu EXCEPT !.writer = NoOwner]

\* SafeConfig.Update: the configuration is replaced
Update(newCfg) ==
    /\ cfg # newCfg
    /\ cfg' = newCfg
    /\ UNCHANGED <<parsed, reloadPosted, mmu, spawned, reloading, reloadsLeft>>
    /\ UNCHANGED <<controllerVars, matcherVars, codecVars, listenerVars>>

\* Host.ReloadConfig: PostMessage(WM_RELOAD_CONFIG)
ReloadConfig ==
    /\ reloadsLeft > 0
    /\ reloadsLeft' = reloadsLeft - 1
    /\ reloadPosted' = reloadPosted + 1
    /\ UNCHANGED <<parsed, cfg, mmu, spawned, reloading>>
    /\ UNCHANGED <<controllerVars, matcherVars, codecVars, listenerVars>>

\* what a step of the window thread outside the hooks leaves alone
WindowUnchanged ==
    /\ UNCHANGED <<captureMode, captureChan, hev, cpc, session, cret, eventsArrived,
                   modifierKeys, lastHandled, sessionsStarted, lastOff, lastReturn>>
    /\ UNCHANGED <<parsed, cfg, spawned, reloadsLeft>>
    /\ UNCHANGED <<controllerVars, codecVars, regsLeft>>

\* windowProc takes WM_RELOAD_CONFIG from the message queue, between two
\* hook calls, and calls UnregisterAll, which waits for the lock
ReloadDispatch ==
    /\ hpc = "h_idle"
    /\ reloadPosted > 0
    /\ reloadPosted' = reloadPosted - 1
    /\ reloading' = [reloading EXCEPT !.running = TRUE, !.fetched = FALSE]
    /\ hpc' = "r_clear_lock"
    /\ UNCHANGED <<mmu, signatures, nextCallback, matchResult, lastCall>>
    /\ WindowUnchanged

\* UnregisterAll: m.mu.Lock()
ReloadUnregisterAllLock ==
    /\ hpc = "r_clear_lock"
    /\ MatcherCanLock
    /\ mmu' = MatcherLock(WindowThread)
    /\ hpc' = "r_clear"
    /\ UNCHANGED <<reloadPosted, reloading, signatures, nextCallback, matchResult, lastCall>>
    /\ WindowUnchanged

\* UnregisterAll: the map is replaced and the lock released
ReloadUnregisterAll ==
    /\ hpc = "r_clear"
    /\ signatures' = ClearedRegistry(signatures)
    /\ matchResult' = NoMatch
    /\ lastCall' = [op |-> "UnregisterAll", id |-> ""]
    /\ mmu' = MatcherUnlock(WindowThread)
    /\ hpc' = "r_get"
    /\ UNCHANGED <<reloadPosted, reloading, nextCallback>>
    /\ WindowUnchanged

\* registerConfiguredHotkeys: h.cfg.Get(), a copy of the configuration that
\* the Register calls are made from
ReloadGetConfig ==
    /\ hpc = "r_get"
    /\ reloading' = [running |-> TRUE, fetched |-> TRUE, cfg |-> cfg, old |-> reloading.cfg,
                     todo |-> registerConfiguredHotkeys(cfg)]
    /\ hpc' = IF registerConfiguredHotkeys(cfg) = <<>> THEN "h_idle" ELSE "r_reg_lock"
    /\ UNCHANGED <<reloadPosted, mmu, signatures, nextCallback, matchResult, lastCall>>
    /\ WindowUnchanged

\* Register: m.mu.Lock()
ReloadRegisterLock ==
    /\ hpc = "r_reg_lock"
    /\ MatcherCanLock
    /\ mmu' = MatcherLock(WindowThread)
    /\ hpc' = "r_reg"
    /\ UNCHANGED <<reloadPosted, reloading, signatures, nextCallback, matchResult, lastCall>>
    /\ WindowUnchanged

\* Register: the registration is appended and the lock released; after the
\* last one windowProc returns
ReloadRegister ==
    /\ hpc = "r_reg"
    /\ LET reg == Head(reloading.todo)
       IN /\ signatures' = AppendRegistration(signatures, reg.sig, reg.id, nextCallback + 1)
          /\ lastCall' = [op |-> "Register", id |-> reg.id]
    /\ nextCallback' = nextCallback + 1
    /\ matchResult' = NoMatch
    /\ mmu' = MatcherUnlock(WindowThread)
    /\ reloading' = [reloading EXCEPT !.todo = Tail(@),
                                      !.running = Tail(reloading.todo) # <<>>]
    /\ hpc' = IF Tail(reloading.todo) = <<>> THEN "h_idle" ELSE "r_reg_lock"
    /\ UNCHANGED reloadPosted
    /\ WindowUnchanged

WindowProcReload ==
    \/ ReloadDispatch
    \/ ReloadUnregisterAllLock
    \/ ReloadUnregisterAll
    \/ ReloadGetConfig
    \/ ReloadRegisterLock
    \/ ReloadRegister

(* ---------------- the input listener: hooks and hotkey capture ---------------- *)
NoEvent == [event |-> 0]
NoSession == [called |-> -1, armed |-> -1, ended |-> -1]
NoReturn == [kind |-> "none"]
NoStore == [by |-> "none"]

NewInputListener ==
    /\ captureMode = FALSE
    /\ captureChan = <<>>
    /\ hpc = "h_idle"
    /\ hev = NoEvent
    /\ cpc = [t \in OpThreads |-> "idle"]
    /\ session = [t \in OpThreads |-> NoSession]
    /\ cret = [t \in OpThreads |-> NoReturn]
    /\ eventsArrived = 0
    /\ modifierKeys = 0
    /\ lastHandled = NoEvent
    /\ sessionsStarted = 0
    /\ lastOff = NoStore
    /\ lastReturn = NoReturn

\* a capture call runs on the free goroutine of lowest number
CanCapture(t) == cpc[t] = "idle" /\ \A u \in OpThreads : u < t => cpc[u] # "idle"

\* some goroutine waits in WaitForCapture and no event has arrived since its
\* StartCapture stored true
FirstSinceStartCapture ==
    \E t \in OpThreads : cpc[t] = "wfc" /\ session[t].armed = eventsArrived

\* the hook callback for a bare modifier key: CallNextHook at once
HookModifierKey ==
    /\ hpc = "h_idle"
    /\ modifierKeys < MaxEvents
    /\ modifierKeys' = modifierKeys + 1
    /\ UNCHANGED <<captureMode, captureChan, hpc, hev, cpc, session, cret, eventsArrived,
                   lastHandled, sessionsStarted, lastOff, lastReturn>>
    /\ UNCHANGED <<controllerVars, hostVars, codecVars, matcherVars>>

\* "go callback()" twice
GoCallbackTwice(started, callback) ==
    IF callback # NoCallback THEN started \o <<callback, callback>> ELSE started

\* "go callback()" when Match returned a callback: a goroutine is started
\* and the hook goes on at once
GoCallback(started, callback) ==
    IF callback # NoCallback THEN Append(started, callback) ELSE started

\* the hook loading captureMode as false
HookMatch(sig) ==
    /\ matchResult' = [called |-> TRUE, sig |-> sig, callback |-> MatchReturn(sig)]
    /\ lastCall' = [op |-> "Match", id |-> ""]
    /\ lastHandled' = [event |-> eventsArrived + 1, sig |-> sig,
                       first |-> FirstSinceStartCapture,
                       outcome |-> IF MatchReturn(sig) # NoCallback THEN "dispatched"
                                                                   ELSE "forwarded",
                       callback |-> MatchReturn(sig)]
    /\ spawned' = GoCallback(spawned, MatchReturn(sig))
    /\ UNCHANGED <<hpc, hev>>

\* the hook loading captureMode as true
HookDiverts(sig) ==
    /\ hev' = [event |-> eventsArrived + 1, sig |-> sig, first |-> FirstSinceStartCapture]
    /\ hpc' = "h_store"
    /\ UNCHANGED <<matchResult, lastCall, lastHandled, spawned>>

\* the hook callback is called for an event that is not a bare modifier key:
\* it builds the signature and loads captureMode; in matching mode it calls
\* Match and starts the callback or calls the next hook
HookLoad(sig) ==
    /\ hpc = "h_idle"
    /\ eventsArrived < MaxEvents
    /\ eventsArrived' = eventsArrived + 1
    /\ IF captureMode THEN HookDiverts(sig) ELSE HookMatch(sig)
    /\ UNCHANGED <<captureMode, captureChan, cpc, session, cret, modifierKeys,
                   sessionsStarted, lastOff, lastReturn>>
    /\ UNCHANGED <<parsed, cfg, reloadPosted, mmu, reloading, reloadsLeft>>
    /\ UNCHANGED <<controllerVars, codecVars, signatures, nextCallback, regsLeft>>

\* captureMode.Store(false) of the hook
HookStore ==
    /\ hpc = "h_store"
    /\ captureMode' = FALSE
    /\ lastOff' = [by |-> "hook", event |-> hev.event]
    /\ hpc' = "h_send"
    /\ UNCHANGED <<captureChan, hev, cpc, session, cret, eventsArrived, modifierKeys,
                   lastHandled, sessionsStarted, lastReturn>>
    /\ UNCHANGED <<controllerVars, hostVars, codecVars, matcherVars>>

\* the select of the hook: the signature goes to captureChan if its slot is
\* free and is dropped otherwise; the hook returns 1
HookSend ==
    /\ hpc = "h_send"
    /\ captureChan' = IF captureChan = <<>> THEN <<[event |-> hev.event, sig |-> hev.sig]>>
                                            ELSE captureChan
    /\ lastHandled' = [event |-> hev.event, sig |-> hev.sig, first |-> hev.first,
                       outcome |-> "diverted", delivered |-> captureChan = <<>>]
    /\ hpc' = "h_idle"
    /\ hev' = NoEvent
    /\ UNCHANGED <<captureMode, cpc, session, cret, eventsArrived, modifierKeys,
                   sessionsStarted, lastOff, lastReturn>>
    /\ UNCHANGED <<controllerVars, hostVars, codecVars, matcherVars>>

(* the hook in matching mode, lock by lock *)
\* what a step of the hook in matching mode leaves alone
HookMatchUnchanged ==
    /\ UNCHANGED <<captureMode, captureChan, cpc, session, cret, modifierKeys,
                   sessionsStarted, lastOff, lastReturn>>
    /\ UNCHANGED <<parsed, cfg, reloadPosted, reloading, reloadsLeft>>
    /\ UNCHANGED <<controllerVars, codecVars, signatures, nextCallback, regsLeft>>

\* the hook callback is called for an event that is not a bare modifier key,
\* loads captureMode as false and calls Match, which waits for the lock
HookCalled(sig) ==
    /\ hpc = "h_idle"
    /\ ~captureMode
    /\ eventsArrived < MaxEvents
    /\ eventsArrived' = eventsArrived + 1
    /\ hev' = [event |-> eventsArrived + 1, sig |-> sig, first |-> FirstSinceStartCapture,
               callback |-> NoCallback]
    /\ hpc' = "h_rlock"
    /\ UNCHANGED <<mmu, matchResult, lastCall, lastHandled, spawned>>
    /\ HookMatchUnchanged

\* Match: m.mu.RLock()
HookMatchRLock ==
    /\ hpc = "h_rlock"
    /\ MatcherCanRLock
    /\ mmu' = MatcherRLock(WindowThread)
    /\ hpc' = "h_match"
    /\ UNCHANGED <<eventsArrived, hev, matchResult, lastCall, lastHandled, spawned>>
    /\ HookMatchUnchanged

\* Match: the lookup, and the deferred m.mu.RUnlock(); without a callback the
\* hook calls the next hook
HookMatchReturn ==
    /\ hpc = "h_match"
    /\ matchResult' = [called |-> TRUE, sig |-> hev.sig, callback |-> MatchReturn(hev.sig)]
    /\ lastCall' = [op |-> "Match", id |-> ""]
    /\ mmu' = MatcherRUnlock(WindowThread)
    /\ hev' = [hev EXCEPT !.callback = MatchReturn(hev.sig)]
    /\ IF MatchReturn(hev.sig) # NoCallback
         THEN /\ hpc' = "h_go"
              /\ UNCHANGED lastHandled
         ELSE /\ hpc' = "h_idle"
              /\ lastHandled' = [event |-> hev.event, sig |-> hev.sig, first |-> hev.first,
                                 outcome |-> "forwarded", callback |-> NoCallback]
    /\ UNCHANGED <<eventsArrived, spawned>>
    /\ HookMatchUnchanged

\* "go callback()" and "return 1"
HookGoCallback ==
    /\ hpc = "h_go"
    /\ spawned' = GoCallback(spawned, hev.callback)
    /\ lastHandled' = [event |-> hev.event, sig |-> hev.sig, first |-> hev.first,
                       outcome |-> "dispatched", callback |-> hev.callback]
    /\ hpc' = "h_idle"
    /\ UNCHANGED <<eventsArrived, hev, mmu, matchResult, lastCall>>
    /\ HookMatchUnchanged

\* StartCapture, its select: a signature left in captureChan is taken out
StartCaptureDrain(t) ==
    /\ CanCapture(t)
    /\ sessionsStarted < MaxSessions
    /\ sessionsStarted' = sessionsStarted + 1
    /\ captureChan' = <<>>
    /\ session' = [session EXCEPT ![t] = [called |-> eventsArrived, armed |-> -1, ended |-> -1]]
    /\ cret' = [cret EXCEPT ![t] = NoReturn]
    /\ cpc' = [cpc EXCEPT ![t] = "sc_store"]
    /\ UNCHANGED <<captureMode, hpc, hev, eventsArrived, modifierKeys, lastHandled,
                   lastOff, lastReturn>>
    /\ UNCHANGED <<controllerVars, hostVars, codecVars, matcherVars>>

\* StartCapture, captureMode.Store(true); WaitForCapture is called next
StartCaptureStore(t) ==
    /\ cpc[t] = "sc_store"
    /\ captureMode' = TRUE
    /\ session' = [session EXCEPT ![t].armed = eventsArrived]
    /\ cpc' = [cpc EXCEPT ![t] = "wfc"]
    /\ UNCHANGED <<captureChan, hpc, hev, cret, eventsArrived, modifierKeys, lastHandled,
                   sessionsStarted, lastOff, lastReturn>>
    /\ UNCHANGED <<controllerVars, hostVars, codecVars, matcherVars>>

\* WaitForCapture receives from captureChan and returns the signature
WaitForCaptureReceive(t) ==
    /\ cpc[t] = "wfc"
    /\ captureChan # <<>>
    /\ captureChan' = <<>>
    /\ cret' = [cret EXCEPT ![t] = [kind |-> "sig", sig |-> captureChan[1].sig,
                                    event |-> captureChan[1].event]]
    /\ lastReturn' = [kind |-> "sig", t |-> t]
    /\ session' = [session EXCEPT ![t].ended = eventsArrived]
    /\ cpc' = [cpc EXCEPT ![t] = "idle"]
    /\ UNCHANGED <<captureMode, hpc, hev, eventsArrived, modifierKeys, lastHandled,
                   sessionsStarted, lastOff>>
    /\ UNCHANGED <<controllerVars, hostVars, codecVars, matcherVars>>

\* WaitForCapture: the timer fires and its case is taken
WaitForCaptureTimeout(t) ==
    /\ cpc[t] = "wfc"
    /\ cpc' = [cpc EXCEPT ![t] = "wfc_stop"]
    /\ UNCHANGED <<captureMode, captureChan, hpc, hev, session, cret, eventsArrived,
                   modifierKeys, lastHandled, sessionsStarted, lastOff, lastReturn>>
    /\ UNCHANGED <<controllerVars, hostVars, codecVars, matcherVars>>

\* the timeout case returning its error without StopCapture
StopCaptureSkipped(t) ==
    UNCHANGED <<captureMode, lastOff>>

\* StopCapture: captureMode.Store(false)
StopCapture(t) ==
    /\ captureMode' = FALSE
    /\ lastOff' = [by |-> "timeout", t |-> t]

\* WaitForCapture: the timeout case calls StopCapture and returns the error
WaitForCaptureStop(t) ==
    /\ cpc[t] = "wfc_stop"
    /\ StopCapture(t)
    /\ cret' = [cret EXCEPT ![t] = [kind |-> "timeout"]]
    /\ lastReturn' = [kind |-> "timeout", t |-> t]
    /\ session' = [session EXCEPT ![t].ended = eventsArrived]
    /\ cpc' = [cpc EXCEPT ![t] = "idle"]
    /\ UNCHANGED <<captureChan, hpc, hev, eventsArrived, modifierKeys, lastHandled,
                   sessionsStarted>>
    /\ UNCHANGED <<controllerVars, hostVars, codecVars, matcherVars>>

(* ---------------- initial states ---------------- *)
TextA == Payload("Text", "a", 1)
TextB == Payload("Text", "b", 1)

ImgP == Payload("Image", "p", 2)

\* no operation is running and no clipboard event is on its way
InitIdle ==
    /\ NewInputListener
    /\ HostIdle
    /\ mu = NoOwner
    /\ wmQueue = 0
    /\ clipEvents = 0
    /\ now = 0
    /\ opsLeft = MaxOps
    /\ lastOp = "none"
    /\ pc = [t \in OpThreads |-> "idle"]
    /\ loc = [t \in OpThreads |-> NoLocals]
    /\ wpc = "w_idle"

\* ... and no hotkey is registered
InitQuiet ==
    /\ NewSignatureMatcher
    /\ CodecIdle
    /\ InitIdle
    /\ cfg = defaultConfig
    /\ reloading = NoReload

\* what cfg.Queue.DefaultOrder can hold
DefaultOrders == {"LIFO", "FIFO", "RANDOM", ""}

\* the configured order taken as it is
InitialOrderUnchecked(order) == order

\* NewController: an order that is neither LIFO nor FIFO is replaced by LIFO
InitialOrder(order) == IF order # "LIFO" /\ order # "FIFO" THEN "LIFO" ELSE order

\* NewController, before any clipboard change
NewController ==
    /\ queueEnabled = FALSE
    /\ queue = <<>>
    /\ snapshotOnEnable = NoSnapshot
    /\ orderStrategy \in { InitialOrder(order) : order \in DefaultOrders }
    /\ lastNotify = NoNotify
    /\ notifyFlip = FALSE
    /\ history = <<>>
    /\ selfEventsRing = [i \in 0..(ringBufferSize - 1) |-> 0]
    /\ ringIndex = 0
    /\ recorded = <<>>
    /\ ocuOutcome = NoOutcome
    /\ clipboard = TextA
    /\ clipSeq = 1
    /\ clipOwner = "user"

InitFresh ==
    /\ InitQuiet
    /\ NewController

\* registerConfiguredHotkeys has registered the toggle and the paste hotkey,
\* which fell into one bucket
InitRegistered ==
    /\ InitIdle
    /\ CodecIdle
    /\ NewController
    /\ LET toggle == NewInputSignature(SourceKeyboard, <<>>, 0)
           paste == NewInputSignature(SourceKeyboard, <<66>>, 0)
       IN /\ signatures = (toggle.Hash :> <<[Signature |-> toggle, Callback |-> 1, ID |-> "toggle"],
                                             [Signature |-> paste, Callback |-> 2, ID |-> "paste"]>>)
          /\ cfg = [ToggleQueue |-> SigString(toggle), PasteNext |-> SigString(paste),
                    Macros |-> <<>>]
          /\ reloading = Reloaded(cfg)
    /\ nextCallback = 2
    /\ matchResult = NoMatch
    /\ regsLeft = MaxRegistrations
    /\ lastCall = [op |-> "Register", id |-> "paste"]

\* the registry after the Register calls regs, made on sigs with the
\* callbacks n + 1, n + 2, ...
RECURSIVE RegisterAll(_, _, _)
RegisterAll(sigs, regs, n) ==
    IF regs = <<>> THEN sigs
    ELSE RegisterAll(AppendRegistration(sigs, Head(regs).sig, Head(regs).id, n + 1),
                     Tail(regs), n + 1)

\* Host.Start has registered the hotkeys of some configuration
InitStarted ==
    /\ InitIdle
    /\ CodecIdle
    /\ NewController
    /\ cfg \in Configs
    /\ reloading = Reloaded(cfg)
    /\ signatures = RegisterAll(<<>>, registerConfiguredHotkeys(cfg), 0)
    /\ nextCallback = Len(registerConfiguredHotkeys(cfg))
    /\ matchResult = NoMatch
    /\ regsLeft = MaxRegistrations
    /\ lastCall = [op |-> "Register",
                   id |-> registerConfiguredHotkeys(cfg)[Len(registerConfiguredHotkeys(cfg))].id]

\* the user has copied "a" (sequence number 2), which went to history, and
\* CopyItem has written it back ringBufferSize times (3..10): the ring is full
InitRingFull ==
    /\ InitQuiet
    /\ queueEnabled = FALSE
    /\ queue = <<>>
    /\ snapshotOnEnable = NoSnapshot
    /\ orderStrategy = "LIFO"
    /\ lastNotify = NoNotify
    /\ notifyFlip = FALSE
    /\ history = <<Content(TextA, 0)>>
    /\ selfEventsRing = [i \in 0..(ringBufferSize - 1) |-> i + 3]
    /\ ringIndex = 0
    /\ recorded = [i \in 1..ringBufferSize |-> i + 2]
    /\ ocuOutcome = "self"
    /\ clipboard = TextA
    /\ clipSeq = ringBufferSize + 2
    /\ clipOwner = "program"

\* the user has copied "a", "b", "a", ... HistoryCap - 1 times and every copy
\* went to history
InitHistoryAlmostFull ==
    /\ InitQuiet
    /\ queueEnabled = FALSE
    /\ queue = <<>>
    /\ snapshotOnEnable = NoSnapshot
    /\ orderStrategy = "LIFO"
    /\ lastNotify = NoNotify
    /\ notifyFlip = FALSE
    /\ history = [i \in 1..(HistoryCap - 1) |-> Content(IF i % 2 = 1 THEN TextA ELSE TextB, 0)]
    /\ selfEventsRing = [i \in 0..(ringBufferSize - 1) |-> 0]
    /\ ringIndex = 0
    /\ recorded = <<>>
    /\ ocuOutcome = "added"
    /\ clipboard = IF (HistoryCap - 1) % 2 = 1 THEN TextA ELSE TextB
    /\ clipSeq = HistoryCap
    /\ clipOwner = "user"

\* the queue was enabled with "a" on the clipboard and the user has then
\* copied "a", "b" and the image p: ToggleQueue notified once, every
\* OnClipboardUpdate once
InitQueued ==
    /\ InitQuiet
    /\ queueEnabled = TRUE
    /\ queue = <<Content(TextA, 0), Content(TextB, 0), Content(ImgP, 0)>>
    /\ snapshotOnEnable = Content(TextA, 0)
    /\ orderStrategy \in {"LIFO", "FIFO"}
    /\ lastNotify = [enabled |-> TRUE, count |-> 3, mode |-> orderStrategy, locked |-> TRUE]
    /\ notifyFlip = FALSE
    /\ history = queue
    /\ selfEventsRing = [i \in 0..(ringBufferSize - 1) |-> 0]
    /\ ringIndex = 0
    /\ recorded = <<>>
    /\ ocuOutcome = "added"
    /\ clipboard = ImgP
    /\ clipSeq = 4
    /\ clipOwner = "user"

\* the orders SetOrderStrategy is called with
Orders == {"LIFO", "FIFO", "RANDOM"}

\* the steps of the operation goroutines in T, operation by operation
QueueOps(T) ==
    \/ \E t \in T : ClearQueue(t)
    \/ \E t \in T : ToggleOrder(t)
    \/ \E t \in T, order \in Orders : SetOrderStrategy(t, order)
    \/ \E t \in T, index \in -1..MaxOps : RemoveItem(t, index)
    \/ \E t \in T : ReturnErr(t)

ToggleQueueOp(T) ==
    \/ \E t \in T : ToggleQueueBegin(t)
    \/ \E t \in T : ToggleQueueRead(t)
    \/ \E t \in T : ToggleQueueCommit(t)
    \/ \E t \in T : ToggleQueueNotify(t)
    \/ \E t \in T : ToggleQueueWrite(t)

PasteNextOp(T) ==
    \/ \E t \in T : PasteNextBegin(t)
    \/ \E t \in T : PasteNextRead(t)
    \/ \E t \in T : PasteNextWrite(t)
    \/ \E t \in T : PasteNextSendCtrlV(t)
    \/ \E t \in T : PasteNextRestore(t)

SelfEventOp(T) ==
    \/ \E t \in T : GetClipboardSequenceNumber(t)
    \/ \E t \in T : addSelfEvent(t)

ExecuteMacroOp(T) ==
    \/ \E t \in T, mode \in MacroModes : ExecuteMacroBegin(t, mode)
    \/ \E t \in T : ExecuteMacroRead(t)
    \/ \E t \in T : ExecuteMacroWrite(t)
    \/ \E t \in T : ExecuteMacroSendCtrlV(t)
    \/ \E t \in T : ExecuteMacroRestore(t)
    \/ \E t \in T : ReturnErr(t)

CopyItemOp(T) ==
    \/ \E t \in T, i \in 1..HistoryCap : CopyItem(t, i)
    \/ \E t \in T : CopyItemRecord(t)

ControllerNext(T) ==
    \/ QueueOps(T)
    \/ ToggleQueueOp(T)
    \/ PasteNextOp(T)
    \/ SelfEventOp(T)
    \/ CopyItemOp(T)

\* the worker goroutine and the window procedure
WorkerNext ==
    \/ WorkerReceive
    \/ WorkerDrain
    \/ OnClipboardUpdateLock
    \/ OnClipboardUpdateRead
    \/ WmClipboardUpdate

(* the program with NumThreads concurrent operation goroutines *)
Init == InitFresh

Next ==
    \/ ControllerNext(OpThreads)
    \/ WorkerNext
    \/ \E p \in {TextA, TextB} : UserCopy(p)

Spec == Init /\ [][Next]_vars

(* the operations called one after the other by a single goroutine, next  *)
(* to the worker and the user, later in the life of the program            *)
NextSeq ==
    \/ ControllerNext({1})
    \/ WorkerNext
    \/ \E p \in {TextA, TextB} : UserCopy(p)

\* the self-event ring is full
SpecRing == InitRingFull /\ [][NextSeq]_vars

\* the history is one short of its capacity
SpecHist == InitHistoryAlmostFull /\ [][NextSeq]_vars

\* three items are queued
NextQueue ==
    \/ PasteNextOp({1})
    \/ SelfEventOp({1})
    \/ ClearQueue(1)
    \/ ToggleOrder(1)
    \/ WorkerNext
    \/ UserCopy(TextA)

SpecQueue == InitQueued /\ [][NextQueue]_vars

\* three items are queued and items are removed by index
NextRemove ==
    \/ \E index \in -1..(MaxOps + 1) : RemoveItem(1, index)
    \/ ReturnErr(1)
    \/ ClearQueue(1)
    \/ WorkerNext
    \/ UserCopy(TextA)

SpecRemove == InitQueued /\ [][NextRemove]_vars

(* the fresh program: one goroutine switches the queue on and off, sets the *)
(* order and removes items while the user copies                            *)
NextOrder ==
    \/ QueueOps({1})
    \/ ToggleQueueOp({1})
    \/ SelfEventOp({1})
    \/ WorkerNext
    \/ UserCopy(TextB)

SpecOrder == InitFresh /\ [][NextOrder]_vars

(* the fresh program: the queue is switched on and off while the user      *)
(* copies texts, twice the same too, and empties the clipboard             *)
NextUpdate ==
    \/ ToggleQueueOp({1})
    \/ SelfEventOp({1})
    \/ WorkerNext
    \/ \E p \in {TextA, TextB, EmptyClip} : UserCopy(p)

SpecUpdate == InitFresh /\ [][NextUpdate]_vars

\* three items are queued; items are pasted and macros run while the user
\* copies, and no clipboard event is handled yet
NextPaste ==
    \/ PasteNextOp({1})
    \/ ExecuteMacroOp({1})
    \/ SelfEventOp({1})
    \/ UserCopy(TextA)

SpecPaste == InitQueued /\ [][NextPaste]_vars

(* three items are queued; items are pasted and macros run by goroutines   *)
(* of their own, one for every press of a hotkey, and nobody else writes    *)
(* the clipboard                                                            *)
NextPastes ==
    \/ PasteNextOp(OpThreads)
    \/ ExecuteMacroOp(OpThreads)
    \/ SelfEventOp(OpThreads)

SpecPastes == InitQueued /\ [][NextPastes]_vars

(* the coalescing worker under fair scheduling: the window thread handles *)
(* its messages, the worker goroutine runs, and a goroutine holding the     *)
(* controller's lock goes on to release it; the user copies, history items  *)
(* are copied back and the queue is switched on and off meanwhile           *)
NextWorker ==
    \/ WorkerNext
    \/ \E p \in {TextA, TextB} : UserCopy(p)
    \/ CopyItemOp({1})
    \/ ToggleQueueOp({1})
    \/ SelfEventOp({1})

SpecWorker ==
    /\ InitFresh
    /\ [][NextWorker]_vars
    /\ WF_vars(WmClipboardUpdate)
    /\ WF_vars(WorkerReceive)
    /\ WF_vars(WorkerDrain)
    /\ WF_vars(OnClipboardUpdateLock)
    /\ WF_vars(OnClipboardUpdateRead)
    /\ WF_vars(CopyItemRecord(1))

(* the fresh program: the toggle hotkey is pressed several times, every    *)
(* press running ToggleQueue on a goroutine of its own, while the user      *)
(* copies and the worker handles the clipboard changes                      *)
NextToggle ==
    \/ ToggleQueueOp(OpThreads)
    \/ SelfEventOp(OpThreads)
    \/ WorkerNext
    \/ \E p \in {TextA, TextB} : UserCopy(p)

SpecToggle == InitFresh /\ [][NextToggle]_vars

(* the fresh program with a clock and with all kinds of content: the queue *)
(* is switched on and off while the user copies                            *)
NextTimed ==
    \/ ToggleQueueOp({1})
    \/ SelfEventOp({1})
    \/ WorkerNext
    \/ \E p \in UserPayloads : UserCopy(p)
    \/ Tick

SpecTimed == InitFresh /\ [][NextTimed]_vars

(* the hotkey registry alone: registrations, removals and lookups *)
MatcherNext ==
    \/ \E sig \in InputSignatures, id \in RegistrationIDs : Register(sig, id)
    \/ \E id \in RegistrationIDs : Unregister(id)
    \/ UnregisterAll
    \/ \E sig \in InputSignatures : Match(sig)

SpecMatcher == InitFresh /\ [][MatcherNext]_vars

(* the registry with both configured hotkeys in one bucket: hotkeys are    *)
(* registered again, removed and looked up                                  *)
BucketNext ==
    \/ \E sig \in HotkeySignatures, id \in RegistrationIDs : Register(sig, id)
    \/ \E id \in RegistrationIDs : Unregister(id)
    \/ UnregisterAll
    \/ \E sig \in HotkeySignatures : Match(sig)

SpecBucket == InitRegistered /\ [][BucketNext]_vars

(* the serialisation alone: signatures are written and read back, and     *)
(* bytes and strings from elsewhere are read                               *)
CodecNext ==
    \/ CodecIdle /\ \E s \in CodecSignatures(MaxUint16 + 1) : Serialize(s)
    \/ CodecIdle /\ \E data \in WireInputs : ReceiveBytes(data)
    \/ Deserialize
    \/ CodecIdle /\ \E s \in CodecSignatures(MaxUint16 + 1) : SaveHotkey(s)
    \/ CodecIdle /\ \E text \in ConfigTexts : EditConfig(text)
    \/ LoadHotkey

SpecCodec == InitFresh /\ [][CodecNext]_vars

(* the input listener with both configured hotkeys registered: events      *)
(* reach the hooks while the goroutines in T capture hotkeys                *)
HookNext ==
    \/ HookModifierKey
    \/ \E sig \in HotkeySignatures : HookLoad(sig)
    \/ HookStore
    \/ HookSend

CaptureHotkeyWithDisplay(T) ==
    \/ \E t \in T : StartCaptureDrain(t)
    \/ \E t \in T : StartCaptureStore(t)
    \/ \E t \in T : WaitForCaptureReceive(t)
    \/ \E t \in T : WaitForCaptureTimeout(t)
    \/ \E t \in T : WaitForCaptureStop(t)

\* capture requests may overlap
CaptureNext ==
    \/ HookNext
    \/ CaptureHotkeyWithDisplay(OpThreads)

SpecCapture == InitRegistered /\ [][CaptureNext]_vars

\* one capture request at a time
CaptureSeqNext ==
    \/ HookNext
    \/ CaptureHotkeyWithDisplay({1})

SpecCaptureSeq == InitRegistered /\ [][CaptureSeqNext]_vars

(* the two locks: the window thread runs its hooks in matching mode and   *)
(* the reloads, the goroutines that the hooks start for the toggle hotkey   *)
(* run ToggleQueue one after the other, and the worker handles the          *)
(* clipboard changes                                                        *)
InitDefault ==
    /\ InitStarted
    /\ cfg = defaultConfig

\* the presses of the toggle hotkey of defaultConfig and of F1
LockEvents ==
    { KeyboardSignature(67, 46, 0, WM_KEYDOWN, ModCtrl + ModAlt),
      KeyboardSignature(112, 59, 0, WM_KEYDOWN, 0) }

\* a goroutine started by "go callback()" runs onToggleQueue, which calls
\* ToggleQueue: one call for every callback started
CallbackToggleQueue(t) ==
    /\ MaxOps - opsLeft < Len(spawned)
    /\ ToggleQueueBegin(t)

LocksNext ==
    \/ \E sig \in LockEvents : HookCalled(sig)
    \/ HookMatchRLock
    \/ HookMatchReturn
    \/ HookGoCallback
    \/ ReloadConfig
    \/ WindowProcReload
    \/ CallbackToggleQueue(1)
    \/ ToggleQueueRead(1)
    \/ ToggleQueueCommit(1)
    \/ ToggleQueueNotify(1)
    \/ ToggleQueueWrite(1)
    \/ SelfEventOp({1})
    \/ WorkerNext

SpecLocks == InitDefault /\ [][LocksNext]_vars

(* the reload of the hotkeys: the configuration is replaced, reloads are  *)
(* requested, and the window thread runs them between the lookups of its   *)
(* hooks                                                                    *)
ReloadNext ==
    \/ \E newCfg \in Configs : Update(newCfg)
    \/ ReloadConfig
    \/ WindowProcReload
    \/ hpc = "h_idle" /\ \E sig \in KeyEvents : Match(sig)

SpecReload == InitStarted /\ [][ReloadNext]_vars

(* the signatures of a new configuration: EnsureSignatures fills in the   *)
(* hotkeys from their display strings and the host parses them             *)
\* the display strings at hand
DisplayStrings == { Join(parts) : parts \in SeqsUpTo(LegacyParts, MaxParts) }

\* a configuration whose hotkeys have display strings and no signatures yet
InitDisplay ==
    /\ NewSignatureMatcher
    /\ CodecIdle
    /\ InitIdle
    /\ NewController
    /\ \E toggle \in DisplayStrings, paste \in {<<>>, AltV} :
          cfg = [ToggleQueue |-> <<>>, PasteNext |-> <<>>, ToggleQueueDisplay |-> toggle,
                 PasteNextDisplay |-> paste, Macros |-> <<>>]
    /\ reloading = NoReload

EnsureNext ==
    \/ EnsureSignatures
    \/ ParseHotkeyToSignature(cfg.ToggleQueue)
    \/ ParseHotkeyToSignature(cfg.PasteNext)

SpecEnsure == InitDisplay /\ [][EnsureNext]_vars

(* the parsing of hotkey strings alone: one string is handed to the host *)
ParseNext == \E hotkeyStr \in HotkeyStrings : ParseHotkeyToSignature(hotkeyStr)

SpecParse == InitFresh /\ [][ParseNext]_vars

TypeOK ==
    /\ queueEnabled \in BOOLEAN
    /\ Len(history) <= HistoryCap
    /\ ringIndex \in 0..(ringBufferSize - 1)
    /\ mu \in {NoOwner, Worker} \cup OpThreads

(* ======================= the claims ======================= *)

\* C1: the sequence number of a clipboard write made by the program is in
\* the self-event ring before OnClipboardUpdate can read it: whenever
\* OnClipboardUpdate is free to take the lock and read the sequence number,
\* and the last clipboard change was a write of the program, isSelfEvent
\* holds for the current sequence number.
C1_SelfWriteRecordedBeforeObserved ==
    (wpc = "ocu_lock" /\ mu = NoOwner /\ clipOwner = "program") => isSelfEvent(clipSeq)

\* the last n sequence numbers recorded
LastRecorded(n) ==
    { recorded[i] : i \in { j \in DOMAIN recorded : Len(recorded) - j < n } }

\* C2: an OnClipboardUpdate that observes a sequence number recorded in the
\* ring with fewer than 8 further records since returns at once: history,
\* queue and the notification are left as they were.
C2_SelfEventSuppressed ==
    [][ (wpc = "ocu_lock" /\ wpc' # "ocu_lock" /\ clipSeq \in LastRecorded(ringBufferSize))
          => /\ wpc' = "w_idle"
             /\ history' = history
             /\ queue' = queue
             /\ lastNotify' = lastNotify
             /\ notifyFlip' = notifyFlip ]_vars

\* the 9th record and later ones have happened, the clipboard still holds
\* the last write recorded, every clipboard event has been handled and the
\* last OnClipboardUpdate was suppressed
C2_Witness ==
    /\ Len(recorded) > ringBufferSize
    /\ recorded[Len(recorded)] = clipSeq
    /\ wmQueue = 0 /\ clipEvents = 0 /\ wpc = "w_idle"
    /\ ocuOutcome = "self"

\* C3: onStateChange is never called while the controller's mutex is held.
C3_CallbackOutsideLock == lastNotify.locked = FALSE

\* C4: every PasteNext that dequeues takes the tail of the queue under LIFO
\* and the head under FIFO, and leaves the other elements in their order.
C4_DequeueOrder ==
    [][ \A t \in OpThreads :
          (pc[t] = "idle" /\ pc'[t] = "pn_read")
            => IF orderStrategy = "LIFO"
                 THEN /\ loc'[t].item = queue[Len(queue)]
                      /\ queue' = SubSeq(queue, 1, Len(queue) - 1)
                 ELSE /\ loc'[t].item = queue[1]
                      /\ queue' = SubSeq(queue, 2, Len(queue)) ]_vars

\* under LIFO PasteNext has just taken b, the tail of the queue a, b
C4_Witness ==
    /\ orderStrategy = "LIFO"
    /\ pc[1] = "pn_read"
    /\ loc[1].item = Content(TextB, 0)
    /\ queue = <<Content(TextA, 0)>>

\* content repeats the last history entry: same type, and same text for
\* text, same size otherwise
RepeatsLast(content) ==
    /\ Len(history) > 0
    /\ content.Type # "Empty"
    /\ content.Type = history[Len(history)].Type
    /\ IF content.Type = "Text" THEN content.Val = history[Len(history)].Val
                                ELSE content.SizeBytes = history[Len(history)].SizeBytes

C6_HistoryBounded ==
    [][ /\ Len(history') <= HistoryCap
        /\ (Len(history) = HistoryCap /\ history' # history)
             => /\ Len(history') = HistoryCap
                /\ SubSeq(history', 1, HistoryCap - 1) = Tail(history) ]_vars

\* history is full and its oldest entry, "a", is gone
C6_Witness ==
    /\ Len(history) = HistoryCap
    /\ history[1] = Content(TextB, 0)
    /\ ocuOutcome = "added"

\* the elements of a sequence are pairwise distinct
Distinct(seq) == \A i, j \in DOMAIN seq : i # j => seq[i] # seq[j]

\* C7: once 8 or more pairwise distinct sequence numbers have been
\* recorded, isSelfEvent holds of exactly the last 8; the ring has 8 slots
\* and the cursor stays in 0..7.
C7_RingHoldsLastEight ==
    /\ DOMAIN selfEventsRing = 0..(ringBufferSize - 1)
    /\ ringIndex \in 0..(ringBufferSize - 1)
    /\ (Len(recorded) >= ringBufferSize /\ Distinct(recorded))
         => \A n \in 0..(clipSeq + 1) :
              isSelfEvent(n) <=> n \in LastRecorded(ringBufferSize)

\* 9 distinct numbers recorded: the first is no longer found
C7_Witness ==
    /\ Len(recorded) = ringBufferSize + 1
    /\ Distinct(recorded)
    /\ ~isSelfEvent(recorded[1])

\* C8: after ToggleQueue on the disabled controller and ToggleQueue again,
\* with no other operation and no copy by the user, the clipboard holds what
\* it held at the start.
C8_ToggleQueueRestores ==
    ( /\ opsLeft = MaxOps - 2
      /\ \A t \in OpThreads : pc[t] = "idle"
      /\ ~queueEnabled
      /\ lastNotify.mode # "none"
      /\ ~lastNotify.enabled /\ ~lastNotify.locked )
    => clipboard = TextA

\* C9: the enabling branch of ToggleQueue stores the snapshot and clears the
\* queue only when queueEnabled is false.
C9_EnableOnlyWhenDisabled ==
    [][ \A t \in OpThreads :
          (pc[t] = "tq_commit" /\ pc'[t] = "tq_notify_on") => ~queueEnabled ]_vars

\* every registration of the registry
Registrations ==
    UNION { { signatures[h][i] : i \in 1..Len(signatures[h]) } : h \in DOMAIN signatures }

\* C10: Match(q) returns a callback iff some registration has q's source
\* type, modifier state and raw data, and the callback is that of such a
\* registration.
C10_MatchIffStructurallyEqual ==
    matchResult.called =>
      LET q == matchResult.sig
          same == { r \in Registrations :
                      /\ r.Signature.SourceType = q.SourceType
                      /\ r.Signature.ModifierState = q.ModifierState
                      /\ r.Signature.RawData = q.RawData }
      IN /\ (matchResult.callback # NoCallback) <=> (same # {})
         /\ (matchResult.callback # NoCallback)
              => \E r \in same : r.Callback = matchResult.callback

\* the bucket of q holds first a registration that only shares q's hash and
\* then one with q's signature, whose callback Match returned
C10_Witness ==
    /\ matchResult.called
    /\ matchResult.sig.Hash \in DOMAIN signatures
    /\ LET regs == signatures[matchResult.sig.Hash] IN
         /\ Len(regs) = 2
         /\ regs[1].Signature # matchResult.sig
         /\ regs[2].Signature = matchResult.sig
         /\ matchResult.callback = regs[2].Callback

\* the registrations whose signature has q's source type, modifier state
\* and raw data
StructurallyEqual(q) ==
    { r \in Registrations :
        /\ r.Signature.SourceType = q.SourceType
        /\ r.Signature.ModifierState = q.ModifierState
        /\ r.Signature.RawData = q.RawData }

\* C11: callbacks are numbered in the order of their Register calls; when
\* registrations structurally equal to the query exist, Match returns the
\* lowest-numbered callback among them, and every bucket keeps its
\* registrations in the order of their Register calls.
C11_MatchReturnsEarliest ==
    /\ \A h \in DOMAIN signatures : \A i, j \in 1..Len(signatures[h]) :
          i < j => signatures[h][i].Callback < signatures[h][j].Callback
    /\ (matchResult.called /\ StructurallyEqual(matchResult.sig) # {})
          => /\ \E r \in StructurallyEqual(matchResult.sig) : r.Callback = matchResult.callback
             /\ \A r \in StructurallyEqual(matchResult.sig) : matchResult.callback <= r.Callback

\* the toggle hotkey was registered twice more and its first registration
\* removed; the bucket starts with the colliding paste hotkey, and Match of
\* the toggle hotkey returned the callback registered third, not the fourth
C11_Witness ==
    /\ matchResult.called
    /\ matchResult.sig.Hash \in DOMAIN signatures
    /\ LET regs == signatures[matchResult.sig.Hash] IN
         /\ Len(regs) = 3
         /\ regs[1].Signature # matchResult.sig
         /\ regs[2].Signature = matchResult.sig
         /\ regs[3].Signature = matchResult.sig
         /\ regs[1].Callback = 2
         /\ matchResult.callback = regs[2].Callback

\* new is old with some elements left out, the others in their order
IsSubSeq(new, old) ==
    /\ \A a \in 1..Len(new) : \E x \in 1..Len(old) : old[x] = new[a]
    /\ \A a, b \in 1..Len(new) :
          a < b => \E x, y \in 1..Len(old) : x < y /\ old[x] = new[a] /\ old[y] = new[b]

\* C12: Unregister(id) removes exactly one registration with that ID when
\* there is one, keeps every other registration in its bucket and in its
\* order, and leaves no empty bucket; without such a registration the
\* registry stays as it is.
C12_UnregisterRemovesOne ==
    [][ \A id \in RegistrationIDs :
          Unregister(id) =>
            IF \A r \in Registrations : r.ID # id
            THEN signatures' = signatures
            ELSE /\ \E r \in Registrations :
                       /\ r.ID = id
                       /\ Registrations' = Registrations \ {r}
                       /\ Cardinality(Registrations') = Cardinality(Registrations) - 1
                 /\ DOMAIN signatures' \subseteq DOMAIN signatures
                 /\ \A h \in DOMAIN signatures' :
                       /\ signatures'[h] # <<>>
                       /\ IsSubSeq(signatures'[h], signatures[h]) ]_vars

\* Unregister("toggle") has taken the first of the two toggle registrations
\* out of a bucket of three: the paste hotkey and the toggle hotkey
\* registered third remain, in this order
C12_Witness ==
    /\ lastCall = [op |-> "Unregister", id |-> "toggle"]
    /\ nextCallback = 3
    /\ \E h \in DOMAIN signatures :
          /\ Len(signatures[h]) = 2
          /\ signatures[h][1].Callback = 2 /\ signatures[h][1].ID = "paste"
          /\ signatures[h][2].Callback = 3 /\ signatures[h][2].ID = "toggle"

\* C13: whenever SignatureFromBytes was applied to the result of ToBytes(s),
\* or SignatureFromBase64 to the result of ToBase64(s), it succeeded and
\* returned a signature with the source type, modifier state, raw data and
\* hash of s, which Equals s.
C13_RoundTrip ==
    (codecResult.called /\ codecResult.roundTrip)
      => /\ codecResult.result.ok
         /\ codecResult.result.sig.SourceType = codecSig.SourceType
         /\ codecResult.result.sig.ModifierState = codecSig.ModifierState
         /\ codecResult.result.sig.RawData = codecSig.RawData
         /\ codecResult.result.sig.Hash = codecSig.Hash
         /\ Equals(codecResult.result.sig, codecSig)

\* C14: whenever SignatureFromBytes was applied to bytes that are fewer than
\* 4, or do not start with the version 1, or declare more raw data than
\* follows the length field, it returned an error.
C14_FromBytesRejects ==
    (codecResult.called /\ codecResult.op = "SignatureFromBytes")
      => ((\/ Len(codecData) < 4
           \/ codecData[1] # FormatVersion
           \/ (Len(codecData) >= 5
                 /\ codecData[4] + 256 * codecData[5] > Len(codecData) - 5))
            => ~codecResult.result.ok)

\* C15: an event other than a bare modifier key that is the first to arrive
\* since the StartCapture of a goroutine waiting in WaitForCapture is
\* diverted (the hook goes on to its capture branch and Match is not
\* called), and when the hook has handled it, its signature has been put
\* into the capture channel.
C15_FirstEventDiverted ==
    [][ /\ \A sig \in HotkeySignatures :
             (HookLoad(sig) /\ FirstSinceStartCapture)
               => (hpc' = "h_store" /\ matchResult' = matchResult)
        /\ (HookSend /\ hev.first)
               => (lastHandled'.outcome = "diverted" /\ lastHandled'.delivered) ]_vars

\* no capture request is in progress and the WaitForCapture that returned
\* last returned the timeout error
IdleAfterTimeout ==
    /\ \A t \in OpThreads : cpc[t] = "idle"
    /\ lastReturn.kind = "timeout"

\* C16: WaitForCapture returns a signature or the timeout error; when it
\* returns the timeout error captureMode is false, and it stays false while
\* no capture request is in progress: an event arriving then is matched and
\* its callback started or the event forwarded, never diverted.
C16_TimeoutStopsCapture ==
    [][ /\ \A t \in OpThreads :
             (cpc[t] # "idle" /\ cpc'[t] = "idle")
               => /\ cret'[t].kind \in {"sig", "timeout"}
                  /\ cret'[t].kind = "timeout" => ~captureMode'
        /\ IdleAfterTimeout => ~captureMode
        /\ \A sig \in HotkeySignatures :
             (HookLoad(sig) /\ IdleAfterTimeout)
               => /\ hpc' = "h_idle"
                  /\ lastHandled'.event = eventsArrived'
                  /\ lastHandled'.outcome = IF MatchReturn(sig) # NoCallback
                                            THEN "dispatched" ELSE "forwarded" ]_vars

\* the only capture request timed out without an event; the toggle hotkey
\* arrived afterwards and its callback was started
C16_Witness ==
    /\ sessionsStarted = 1
    /\ cret[1].kind = "timeout"
    /\ session[1].ended = 0
    /\ IdleAfterTimeout
    /\ hpc = "h_idle"
    /\ lastHandled.event = 1
    /\ lastHandled.outcome = "dispatched"
    /\ lastHandled.callback = 1

\* C17: a signature returned by WaitForCapture comes from an event that
\* arrived after the StartCapture call of that goroutine, and while a
\* goroutine waits in WaitForCapture captureMode is never false because of
\* the store of a hook invocation for an event that arrived before its
\* StartCapture call.
C17_NoStaleCapture ==
    /\ \A t \in OpThreads :
          cret[t].kind = "sig" => cret[t].event > session[t].called
    /\ \A t \in OpThreads :
          (cpc[t] = "wfc" /\ ~captureMode /\ lastOff.by = "hook")
            => lastOff.event > session[t].called

\* C18: RemoveItem with an index below 0 or not below the queue length
\* returns an error, leaves queue, history, queueEnabled and orderStrategy
\* as they were and makes no notification.
C18_RemoveItemOutOfRange ==
    [][ \A t \in OpThreads, index \in -1..(MaxOps + 1) :
          (lastOp' = "RemoveItem" /\ opsLeft' # opsLeft
             /\ RemoveItem(t, index) /\ (index < 0 \/ index >= Len(queue)))
            => /\ pc'[t] = "ret_err"
               /\ UNCHANGED <<queue, history, queueEnabled, orderStrategy,
                              lastNotify, notifyFlip>> ]_vars

\* RemoveItem has returned an error on a queue that is not empty
C18_Witness ==
    /\ lastOp = "RemoveItem"
    /\ pc[1] = "ret_err"
    /\ Len(queue) > 0

\* C19: RemoveItem with an index within the queue removes the element at
\* that index: the queue is one shorter, the elements before the index stay
\* and those after it move up by one.
C19_RemoveItemRemovesIndex ==
    [][ \A t \in OpThreads, index \in -1..(MaxOps + 1) :
          (lastOp' = "RemoveItem" /\ opsLeft' # opsLeft
             /\ RemoveItem(t, index) /\ 0 <= index /\ index < Len(queue))
            => /\ Len(queue') = Len(queue) - 1
               /\ \A i \in 1..Len(queue') :
                    queue'[i] = IF i <= index THEN queue[i] ELSE queue[i + 1] ]_vars

\* of the queue a, b, p the middle element was removed
C19_Witness ==
    /\ lastOp = "RemoveItem"
    /\ pc[1] = "idle"
    /\ opsLeft = MaxOps - 1
    /\ queue = <<Content(TextA, 0), Content(ImgP, 0)>>

\* C20: PasteNext on a disabled or empty queue changes no field of the
\* controller, notifies nobody, leaves the clipboard alone and returns at
\* once (no read, write or keystroke step follows).
C20_PasteNextNoop ==
    [][ \A t \in OpThreads :
          (lastOp' = "PasteNext" /\ opsLeft' # opsLeft
             /\ PasteNextBegin(t) /\ (~queueEnabled \/ Len(queue) = 0))
            => UNCHANGED <<ctlVars, osVars, pc, loc, recorded>> ]_vars

\* ToggleQueue has enabled the queue and PasteNext was then called on the
\* empty queue
C20_Witness ==
    /\ lastOp = "PasteNext"
    /\ opsLeft = MaxOps - 2
    /\ queueEnabled
    /\ queue = <<>>
    /\ pc[1] = "idle"

\* a step of goroutine t that fails after the clipboard content was saved:
\* the Write of the item or of the macro text, or SendCtrlV
FailsAfterSave(t) ==
    \/ pc[t] = "pn_write" /\ pc'[t] = "idle"
    \/ pc[t] = "em_write" /\ pc'[t] = "ret_err"
    \/ pc[t] = "pn_ctrlv" /\ pc'[t] = "pn_restore_f"
    \/ pc[t] = "em_ctrlv" /\ pc'[t] = "em_restore_f"

\* C21: in PasteNext and in ExecuteMacro with mode paste, a step that fails
\* after the clipboard content was saved is followed by the attempt to write
\* the saved content back: the operation does not return, and takes no other
\* step, before that Write.
C21_RestoreAfterFailure ==
    [][ \A t \in OpThreads :
          FailsAfterSave(t) => pc'[t] \in {"pn_restore_f", "em_restore_f"} ]_vars

\* the positions of PasteNext after its critical section
PasteNextLabels ==
    {"pn_read", "pn_write", "pn_seq1", "pn_rec1", "pn_ctrlv", "pn_restore", "pn_restore_f",
     "pn_seq2", "pn_rec2"}

\* C22: the dequeue of PasteNext makes the queue one element shorter, and no
\* later step of the call, a failed Read, Write or SendCtrlV included, changes
\* the queue or the history: the item is not put back.
C22_DequeueNotRolledBack ==
    [][ \A t \in OpThreads :
          /\ (pc[t] = "idle" /\ pc'[t] = "pn_read") => Len(queue') = Len(queue) - 1
          /\ (pc[t] \in PasteNextLabels /\ pc'[t] # pc[t])
                => (queue' = queue /\ history' = history) ]_vars

\* PasteNext has taken one of the three items and returned after a failed
\* Read or Write (no self-event was recorded): two items are queued
C22_Witness ==
    /\ lastOp = "PasteNext"
    /\ pc[1] = "idle"
    /\ recorded = <<>>
    /\ Len(queue) = 2
    /\ Len(history) = 3

\* the step changes queueEnabled, the queue length or orderStrategy
ChangesState ==
    \/ queueEnabled' # queueEnabled
    \/ Len(queue') # Len(queue)
    \/ orderStrategy' # orderStrategy

\* the step is a critical section of ToggleQueue run by goroutine t
ToggleQueueChange(t) ==
    \/ pc[t] = "tq_commit" /\ pc'[t] = "tq_notify_on"
    \/ pc[t] = "idle" /\ pc'[t] \in {"tq_write", "tq_notify_off"}

\* the step calls onStateChange with the tuple (enabled, count, mode)
NotifiesWith(enabled, count, mode) ==
    /\ notifyFlip' # notifyFlip
    /\ lastNotify'.enabled = enabled
    /\ lastNotify'.count = count
    /\ lastNotify'.mode = mode

\* C23: every operation that changes queueEnabled, the queue length or
\* orderStrategy calls the state-change callback with the controller's
\* (enabled, queue length, order) right after that change: the operations
\* that change and notify in one critical section do so in that step, and
\* ToggleQueue, which notifies after the unlock, does not return before it
\* has called the callback with the tuple its critical section left.
C23_ChangeNotified ==
    [][ /\ (ChangesState /\ ~\E t \in OpThreads : ToggleQueueChange(t))
            => NotifiesWith(queueEnabled', Len(queue'), orderStrategy')
        /\ \A t \in OpThreads :
              (pc[t] \in {"tq_read", "tq_commit", "tq_write", "tq_seq", "tq_rec",
                          "tq_notify_on", "tq_notify_off"} /\ pc'[t] = "idle")
                => NotifiesWith(loc[t].after.enabled, loc[t].after.count, loc[t].after.mode)
      ]_vars

\* C25: the history is changed by OnClipboardUpdate alone, which appends the
\* content it read at the tail and, at capacity, drops the entry at the head:
\* every other entry keeps its value and its order. No step that makes the
\* queue shorter (PasteNext, RemoveItem, ClearQueue, ToggleQueue) changes it.
C25_HistoryOnlyAppended ==
    [][ /\ history' # history =>
              /\ wpc = "ocu_read" /\ wpc' = "w_idle"
              /\ history'[Len(history')] = ReadClipboard
              /\ SubSeq(history', 1, Len(history') - 1)
                    = IF Len(history) >= HistoryCap THEN Tail(history) ELSE history
        /\ Len(queue') < Len(queue) => history' = history ]_vars

\* the queue was enabled with "a" on the clipboard, the user copied "b", which
\* filled the history and was queued, and RemoveItem has taken it out of the
\* queue: the history still ends with it
C25_Witness ==
    /\ lastOp = "RemoveItem"
    /\ pc[1] = "idle"
    /\ queueEnabled
    /\ snapshotOnEnable # NoSnapshot
    /\ ClipOf(snapshotOnEnable) = TextA
    /\ queue = <<>>
    /\ Len(history) = HistoryCap
    /\ ClipOf(history[HistoryCap]) = TextB

\* C27: SetOrderStrategy with an order other than LIFO and FIFO returns an
\* error and leaves orderStrategy, the queue and the notification record as
\* they were; with LIFO or FIFO it returns no error and orderStrategy is that
\* order afterwards; and orderStrategy is LIFO or FIFO in every state, from
\* NewController on.
C27_OrderStrategyValid ==
    /\ [](orderStrategy \in {"LIFO", "FIFO"})
    /\ [][ \A t \in OpThreads, order \in Orders :
              (lastOp' = "SetOrderStrategy" /\ opsLeft' # opsLeft /\ pc[t] = "idle"
                 /\ SetOrderStrategy(t, order))
                => IF order \notin {"LIFO", "FIFO"}
                     THEN /\ pc'[t] = "ret_err"
                          /\ orderStrategy' = orderStrategy
                          /\ queue' = queue
                          /\ notifyFlip' = notifyFlip
                          /\ lastNotify' = lastNotify
                     ELSE /\ pc'[t] = "idle"
                          /\ orderStrategy' = order
                          /\ queue' = queue ]_vars

\* SetOrderStrategy was called with an unsupported order while an item was
\* queued: its error is about to reach the caller
C27_Witness ==
    /\ lastOp = "SetOrderStrategy"
    /\ \E t \in OpThreads : pc[t] = "ret_err"
    /\ queue # <<>>

\* C29: an OnClipboardUpdate that got past the self-event test and whose Read
\* succeeded with content that is not Empty and not a duplicate appends that
\* content to the tail of the history, whether the queue is enabled or not,
\* and to the tail of the queue if and only if queueEnabled is true at that
\* moment; when the Read fails or the content is Empty, history and queue
\* are left as they were.
C29_UpdateAppends ==
    [][ (wpc = "ocu_read" /\ wpc' = "w_idle") =>
          LET content == ReadClipboard IN
            IF ocuOutcome' = "readfail" \/ content.Type = "Empty"
              THEN /\ history' = history
                   /\ queue' = queue
                   /\ ocuOutcome' \in {"readfail", "empty"}
            ELSE IF IsDuplicate(content, history)
              THEN ocuOutcome' = "dup"
            ELSE /\ ocuOutcome' = "added"
                 /\ Len(history') > 0
                 /\ history'[Len(history')] = content
                 /\ queueEnabled => queue' = Append(queue, content)
                 /\ ~queueEnabled => queue' = queue ]_vars

\* one text went to the history while the queue was disabled, a second one
\* went to the history and to the queue after the queue was enabled
C29_Witness ==
    /\ ocuOutcome = "added"
    /\ wpc = "w_idle"
    /\ queueEnabled
    /\ Len(history) = 2
    /\ Len(queue) = 1
    /\ queue[1] = history[2]

\* the names of the modifiers, in capitals
ModifierNames ==
    { <<"C", "T", "R", "L">>, <<"C", "O", "N", "T", "R", "O", "L">>, <<"A", "L", "T">>,
      <<"S", "H", "I", "F", "T">>, <<"W", "I", "N">> }

\* some '+'-separated part of a legacy string names neither a modifier nor a key
HasUnknownPart(hotkeyStr) ==
    LET parts == Split(ToUpper(hotkeyStr), "+")
    IN \E i \in 1..Len(parts) : TrimSpace(parts[i]) \notin ModifierNames \cup DOMAIN keyMap

\* C26: parseHotkeyToSignature returns no signature for a legacy string
\* one of whose '+'-separated parts is neither a modifier name nor a name of
\* the key table, whatever the other parts are
C26_UnknownPartFails ==
    parsed.called /\ ~HasPrefix(parsed.str, SigPrefix) /\ HasUnknownPart(parsed.str)
        => ~parsed.result.ok

\* C30: in matching mode the hook consumes an event whose signature matches a
\* registration and starts its callback once, on a goroutine of its own,
\* going on without waiting for it; an event that matches nothing is handed
\* to the next hook and starts nothing, and so is every bare modifier key
C30_MatchedDispatchedOnce ==
    [][/\ eventsArrived' = eventsArrived + 1 /\ ~captureMode =>
            LET callback == MatchReturn(lastHandled'.sig)
            IN /\ lastHandled'.event = eventsArrived'
               /\ hpc' = "h_idle"
               /\ IF callback # NoCallback
                    THEN /\ lastHandled'.outcome = "dispatched"
                         /\ spawned' = Append(spawned, callback)
                    ELSE /\ lastHandled'.outcome = "forwarded"
                         /\ spawned' = spawned
       /\ modifierKeys' # modifierKeys =>
            /\ spawned' = spawned
            /\ UNCHANGED <<lastHandled, matchResult>>]_vars

\* one event was dispatched, a later one handed on, and a modifier key came by
C30_Witness ==
    /\ Len(spawned) = 1
    /\ lastHandled.event = 2
    /\ lastHandled.outcome = "forwarded"
    /\ modifierKeys > 0

\* the signatures the hotkey strings of a configuration stand for
Named(c) ==
    { r.sig : r \in { parseHotkeyToSignature(str) :
                        str \in {c.ToggleQueue, c.PasteNext}
                                \cup { c.Macros[i].Signature : i \in 1..Len(c.Macros) }
                                \cup { c.Macros[i].Hotkey : i \in 1..Len(c.Macros) } }
                     \ {NilSignature} }

\* the built-in hotkeys registered for a toggle or paste string that yields
\* no signature
Defaults(c) ==
    (IF parseHotkeyToSignature(c.ToggleQueue).ok THEN {} ELSE {parseHotkeyToSignature(AltC).sig})
      \cup (IF parseHotkeyToSignature(c.PasteNext).ok THEN {} ELSE {parseHotkeyToSignature(AltV).sig})

\* the signatures Match is asked about: key presses and legacy hotkeys
QuerySignatures ==
    KeyEvents \cup { parseHotkeyToSignature(str).sig : str \in {AltC, AltV, <<"F", "1">>} }

NothingMatches == \A sig \in QuerySignatures : MatchReturn(sig) = NoCallback

\* after UnregisterAll nothing matches, and nothing matches again before a
\* Register call
EmptyUntilRegister ==
    /\ hpc = "r_clear" /\ hpc' # hpc => NothingMatches'
    /\ NothingMatches /\ ~NothingMatches' => lastCall'.op = "Register"

\* C28 as stated: after UnregisterAll nothing matches until a Register; when
\* a reload has finished, a hotkey that the old configuration named and the
\* new one does not name matches no more
C28_DroppedHotkeyGone ==
    [][/\ EmptyUntilRegister
       /\ reloading.running /\ ~reloading'.running =>
            \A sig \in QuerySignatures :
                sig \in Named(reloading'.old) /\ sig \notin Named(reloading'.cfg)
                    => MatchReturn(sig)' = NoCallback]_vars

\* C28: after UnregisterAll nothing matches until a Register; when a reload
\* has finished, a hotkey that the old configuration named and the new one
\* does not name matches no more, unless it is the built-in Alt+C or Alt+V
\* that stands in for a toggle or paste string yielding no signature
C28_DroppedHotkeyGoneButDefaults ==
    [][/\ EmptyUntilRegister
       /\ reloading.running /\ ~reloading'.running =>
            \A sig \in QuerySignatures :
                /\ sig \in Named(reloading'.old)
                /\ sig \notin Named(reloading'.cfg)
                /\ sig \notin Defaults(reloading'.cfg)
                => MatchReturn(sig)' = NoCallback]_vars

\* a reload has finished and a key press that the old configuration named
\* and the new one does not name matches no more
C28_Witness ==
    /\ reloading.fetched /\ ~reloading.running
    /\ \E sig \in KeyEvents :
          /\ sig \in Named(reloading.old)
          /\ sig \notin Named(reloading.cfg)
          /\ MatchReturn(sig) = NoCallback

\* the next step of goroutine t inside ToggleQueue
GoroutineStep(t) ==
    \/ ToggleQueueRead(t)
    \/ ToggleQueueCommit(t)
    \/ ToggleQueueNotify(t)
    \/ ToggleQueueWrite(t)
    \/ SelfEventOp({t})

\* the window thread gets the matcher's lock whenever it asks for it, and a
\* goroutine inside ToggleQueue can take its next step, or it waits for the
\* controller's mutex and the worker, which holds it, can release it
NobodyStuck ==
    /\ hpc = "h_rlock" => ENABLED HookMatchRLock
    /\ hpc = "r_clear_lock" => ENABLED ReloadUnregisterAllLock
    /\ hpc = "r_reg_lock" => ENABLED ReloadRegisterLock
    /\ \A t \in OpThreads :
          pc[t] # "idle" => \/ ENABLED GoroutineStep(t)
                            \/ mu = Worker /\ ENABLED OnClipboardUpdateRead

\* C24: no thread holds the controller's mutex and the matcher's lock at the
\* same time: the matcher's lock is only ever held by the window thread,
\* which never holds the controller's mutex and has released the matcher's
\* lock when it starts a matched callback, and a thread that is about to
\* wait for the matcher's lock holds nothing; so every hook call, reload and
\* controller operation that is running can go on, at once or after the
\* holder of the mutex it waits for has gone on
C24_LocksNeverNested ==
    /\ \A t \in OpThreads \cup {WindowThread} :
          ~(mu = t /\ (mmu.writer = t \/ t \in mmu.readers))
    /\ mu # WindowThread
    /\ mmu.writer \in {NoOwner, WindowThread}
    /\ mmu.readers \subseteq {WindowThread}
    /\ hpc = "h_go" => mmu = MatcherFree
    /\ hpc \in {"h_rlock", "r_clear_lock", "r_reg_lock"} => mmu = MatcherFree
    /\ NobodyStuck

\* a goroutine started for the toggle hotkey waits for the controller's
\* mutex, which the worker holds in OnClipboardUpdate, while the window
\* thread holds the matcher's lock as the writer, in a reload
C24_Witness ==
    /\ Len(spawned) > 0
    /\ mu = Worker
    /\ \E t \in OpThreads : pc[t] = "tq_rec"
    /\ mmu.writer = WindowThread

\* the sequence numbers passed to addSelfEvent or addSelfEventLocked so far
RecordedNumbers == { recorded[i] : i \in DOMAIN recorded }

\* C31: while fewer than 8 numbers have been recorded, from the fresh
\* controller on, isSelfEvent holds of no sequence number that was never
\* recorded, 0 included.
C31_OnlyRecordedFound ==
    Len(recorded) < ringBufferSize
      => \A seq \in 0..(clipSeq + 1) : isSelfEvent(seq) => seq \in RecordedNumbers

\* the legacy hotkeys at hand with the key they name: its code, its scan
\* code and the modifiers held
LegacyKeys ==
    { [str |-> AltC, vkCode |-> 67, scanCode |-> 46, mods |-> ModAlt],
      [str |-> AltV, vkCode |-> 86, scanCode |-> 47, mods |-> ModAlt] }

\* the signatures the keyboard hook builds for the key-down event of a key:
\* the message is WM_KEYDOWN, or WM_SYSKEYDOWN with Alt held, and bit 5 of
\* the flags tells whether Alt is held
KeyDowns(k) ==
    { KeyboardSignature(k.vkCode, k.scanCode, flags, wParam, k.mods) :
        flags \in {0, 32}, wParam \in {WM_KEYDOWN, WM_SYSKEYDOWN} }

\* C32: a hotkey registered from the legacy form is matched by the keyboard
\* hook: when Match is called with the signature of the key-down event of
\* that key with exactly those modifiers held while the signature parsed
\* from the string is registered, the two signatures are Equal and Match
\* returns the registered callback.
C32_LegacyHotkeyMatched ==
    [][ \A k \in LegacyKeys :
          LET legacy == parseHotkeyToSignature(k.str) IN
            ( /\ lastCall'.op = "Match"
              /\ matchResult' # matchResult
              /\ matchResult'.sig \in KeyDowns(k)
              /\ legacy.ok
              /\ MatchReturn(legacy.sig) # NoCallback )
            => /\ Equals(legacy.sig, matchResult'.sig)
               /\ matchResult'.callback = MatchReturn(legacy.sig) ]_vars

\* the alphabet positions of the characters of a base64 text
Positions(str) ==
    <<>> \o [k \in 1..Len(str) |->
               IF str[k] = "=" THEN PadChar
               ELSE CHOOSE i \in 0..63 : encodeStd[i + 1] = str[k]]

\* the modifiers a hotkey string names, as bits of InputSignature
NamedModifiers(hotkeyString) == parseParts(Split(ToUpper(hotkeyString), "+"), 0, 0).mods

\* the string was generated for the display string: the host takes it for a
\* signature, of the keyboard, with the modifiers the display string names
GeneratedFor(str, display) ==
    /\ HasPrefix(str, SigPrefix)
    /\ LET sig == SignatureFromBase64(Positions(TrimPrefix(str, SigPrefix)))
       IN /\ sig.ok
          /\ sig.sig.SourceType = SourceKeyboard
          /\ sig.sig.ModifierState = NamedModifiers(display)

\* C33: the string generateSignatureFromHotkey produces for a hotkey string
\* is taken by parseHotkeyToSignature for a signature form, and decodes to a
\* keyboard signature whose modifier bits are the modifiers the string names
\* (Ctrl bit 0, Alt bit 1, Shift bit 2, Win bit 3).
C33_GeneratedSignatureAccepted ==
    /\ cfg.ToggleQueue # <<>> => GeneratedFor(cfg.ToggleQueue, cfg.ToggleQueueDisplay)
    /\ (parsed.called /\ parsed.str # <<>>) => parsed.result.ok

\* no operation is running, no clipboard event is on its way and the worker
\* is waiting
AllFinished ==
    /\ \A t \in OpThreads : pc[t] = "idle"
    /\ mu = NoOwner
    /\ wpc = "w_idle" /\ wmQueue = 0 /\ clipEvents = 0

\* C34: once every operation started has finished, the tuple of the last
\* state-change notification is the controller's (queueEnabled, queue
\* length, orderStrategy); the notification ToggleQueue sends after its
\* unlock reports nothing that another operation has changed meanwhile.
C34_LastNotificationCurrent ==
    (AllFinished /\ lastNotify # NoNotify)
      => /\ lastNotify.enabled = queueEnabled
         /\ lastNotify.count = Len(queue)
         /\ lastNotify.mode = orderStrategy

\* C35: with no writer of the clipboard outside the program, when a
\* PasteNext call sends the paste keystroke the clipboard holds the item
\* this call dequeued, also while other PasteNext and ExecuteMacro calls run
\* on goroutines of their own.
C35_PastesOwnItem ==
    [][ \A t \in OpThreads :
          (pc[t] = "pn_ctrlv" /\ pc'[t] # pc[t]) => clipboard = ClipOf(loc[t].item) ]_vars

\* goroutine t makes a clipboard write that fails: the clipboard and its
\* sequence number stay as they were
WriteFails(t) ==
    /\ pc[t] \in {"tq_write", "pn_write", "pn_restore", "pn_restore_f"}
    /\ pc'[t] # pc[t]
    /\ clipSeq' = clipSeq

\* C36: the self-event ring gets only sequence numbers of successful
\* clipboard writes of the program: an operation whose write failed does not
\* go on to read and record the current sequence number, and
\* OnClipboardUpdate never returns early as for a self-event when the last
\* change of the clipboard was made by the user.
C36_OnlyOwnWritesRecorded ==
    [][ /\ \A t \in OpThreads :
              WriteFails(t) => pc'[t] \notin {"tq_seq", "pn_seq1", "pn_seq2"}
        /\ (wpc = "ocu_lock" /\ wpc' = "w_idle") => clipOwner = "program" ]_vars

\* C37: under fair scheduling every clipboard-change notification is
\* followed by an OnClipboardUpdate call that begins after it arrived: from
\* any state with a notification on its way, a state is reached where every
\* notification has been handed to the worker, the channel is empty and an
\* OnClipboardUpdate call has just begun; a notification that arrives during
\* the debounce, the drain or a running call is not lost.
C37_NotificationFollowedByCall ==
    (wmQueue > 0) ~> (wmQueue = 0 /\ clipEvents = 0 /\ wpc = "ocu_lock")

\* a notification has arrived while OnClipboardUpdate was running for an
\* earlier one, which went to the history
C37_Witness ==
    /\ wpc = "ocu_read"
    /\ clipEvents = 1
    /\ wmQueue = 0
    /\ Len(history) = 1

\* C38: whenever the controller's lock is free, the queue of a disabled
\* controller is empty: OnClipboardUpdate appends to the queue only while
\* queueEnabled is true, and both branches of ToggleQueue leave it empty.
C38_DisabledQueueEmpty ==
    /\ [](mu = NoOwner /\ ~queueEnabled => queue = <<>>)
    /\ [][ /\ (wpc = "ocu_read" /\ wpc' = "w_idle" /\ ~queueEnabled) => queue' = queue
           /\ \A t \in OpThreads : ToggleQueueChange(t) => queue' = <<>> ]_vars

\* the queue was enabled and held an item, ToggleQueue has disabled it, and
\* a later clipboard change went to the history alone
C38_Witness ==
    /\ ~queueEnabled
    /\ mu = NoOwner
    /\ queue = <<>>
    /\ lastNotify = StateTuple(FALSE, 0, orderStrategy)
    /\ ocuOutcome = "added"
    /\ wpc = "w_idle"
    /\ Len(history) = 2

\* C39: whenever the controller's lock is free, snapshotOnEnable is present
\* exactly when queueEnabled is true: the enabling critical section of
\* ToggleQueue stores the snapshot (the zero content after a failed read)
\* together with queueEnabled = true, the disabling one clears it together
\* with queueEnabled = false, and no other step changes the field.
C39_SnapshotIffEnabled ==
    /\ [](mu = NoOwner => ((snapshotOnEnable # NoSnapshot) <=> queueEnabled))
    /\ [][ /\ \A t \in OpThreads :
                /\ (pc[t] = "tq_commit" /\ pc'[t] = "tq_notify_on")
                     => (queueEnabled' /\ snapshotOnEnable' = loc[t].before)
                /\ (pc[t] = "idle" /\ pc'[t] \in {"tq_write", "tq_notify_off"})
                     => (~queueEnabled' /\ snapshotOnEnable' = NoSnapshot)
           /\ snapshotOnEnable' # snapshotOnEnable
                => \E t \in OpThreads : ToggleQueueChange(t) ]_vars

\* the queue was enabled after a failed snapshot read, with the user's text
\* on the clipboard, while another ToggleQueue call that also found the
\* queue disabled waits to enter its second critical section
C39_Witness ==
    /\ queueEnabled
    /\ mu = NoOwner
    /\ snapshotOnEnable = ZeroContent
    /\ clipboard # EmptyClip
    /\ \E t \in OpThreads : pc[t] = "tq_commit"

\* goroutine t is idle or at the error return after the step, and the step
\* changes neither the clipboard, its sequence number nor the ring
ExecuteMacroUntouched(t) ==
    /\ pc'[t] \in {"idle", "ret_err"}
    /\ UNCHANGED <<clipboard, clipSeq, selfEventsRing, ringIndex>>

\* C40: ExecuteMacro runs every mode that validateConfig accepts (type,
\* paste, type_hw, sequence) without the unsupported-mode error, which is the
\* only error of a mode other than type and paste; and with mode type or
\* with a mode it does not support it returns without reading or writing
\* the clipboard and without recording a self-event.
C40_AcceptedModesExecuted ==
    [][ \A t \in OpThreads :
          /\ \A mode \in MacroModes \ {"type"} :
                ExecuteMacroBegin(t, mode) => pc'[t] # "ret_err"
          /\ \A mode \in MacroModes \ {"paste"} :
                ExecuteMacroBegin(t, mode) => ExecuteMacroUntouched(t) ]_vars

====
